---- MODULE Spec2Model ----
(***************************************************************************)
(* A model of castep-model-core: the staged atom-table builder, the        *)
(* structure-of-arrays atom table, the lattice model and its merge, the    *)
(* lookups by atom id, and the MSI text parser (field extractor and        *)
(* structural state machine).                                              *)
(*                                                                         *)
(* Rust values are modelled as follows.  Option<T>: None / Some(v).        *)
(* Result<T, E>: the returned error is a record with a "kind" field, a     *)
(* success has kind "Ok".  A panic (unwrap on None / Err, an arithmetic    *)
(* overflow in a build with overflow checks) is the record Panic.  A value *)
(* that was moved out of (a consumed `self`) is None.                      *)
(***************************************************************************)
EXTENDS Integers, Sequences, FiniteSets, TLC

VARIABLES
    bld,        \* the live AtomCollectionBuilder, None once consumed
    atoms,      \* the live AtomCollection, None when there is none
    lm,         \* the live LatticeModel (lattice vectors and Vec<Atom>)
    parser,     \* the MsiParser: its type state and its fields
    doc,        \* the text handed to MsiParser::new
    model,      \* what build_lattice_model returned
    call,       \* the last operation called, with its arguments
    ret         \* what the last operation returned

vars == <<bld, atoms, lm, parser, doc, model, call, ret>>

\* what the calls on one kind of object leave alone
notAtomVars == <<lm, parser, doc, model>>
notLatticeVars == <<bld, atoms, parser, doc, model>>
notParserVars == <<bld, atoms, lm>>

---------------------------------------------------------------------------
(* Bounds of the model *)

\* largest declared atom count of a builder
MaxSize == 1
\* longest column handed to a setter
MaxLen == 2

---------------------------------------------------------------------------
(* Values *)

None == [is_some |-> FALSE]
Some(v) == [is_some |-> TRUE, val |-> v]

Ok == [kind |-> "Ok"]
Panic == [kind |-> "Panic"]
Unit == [kind |-> "Unit"]
Idle == [kind |-> "Idle"]

\* element symbols, atomic numbers, cartesian points, fractional points
Symbols == {"C", "H"}
AtomicNums == {1, 6}
Points == {<<1, 0, 0>>, <<-1, 0, 0>>}
Fracs == {None, Some(<<0, 0, 0>>)}
Ids == {1, 2}

SeqsUpTo(S, n) == UNION {[1..k -> S] : k \in 0..n}

\* the columns handed to the builder's setters
SymbolColumns == SeqsUpTo(Symbols, MaxLen)
AtomicNumColumns == SeqsUpTo(AtomicNums, MaxLen)
PointColumns == SeqsUpTo(Points, MaxLen)
FracColumns == SeqsUpTo(Fracs, MaxLen)
IdColumns == SeqsUpTo(Ids, MaxLen)

---------------------------------------------------------------------------
(* atom/atom_builder.rs: AtomCollectionBuilder *)

InconsistentSize(curr, expected) ==
    [kind |-> "InconsistentSize", curr |-> curr, expected |-> expected]

MissingField(missed) == [kind |-> "MissingField", missed |-> missed]

\* A Result<AtomCollectionBuilder, AtomCollectionBuildingError>
BOk(b) == [kind |-> "Ok", val |-> b]

\* T is the format marker type of the builder (MsiModel in every use)
new(T, size) ==
    [element_symbols |-> None,
     atomic_nums |-> None,
     xyz_coords |-> None,
     fractional_xyz |-> None,
     atom_ids |-> None,
     size |-> size,
     format_type |-> T,
     state |-> "No"]

with_element_symbols(self, element_symbols) ==
    IF Len(element_symbols) = self.size
    THEN BOk([self EXCEPT !.element_symbols = Some(element_symbols)])
    ELSE InconsistentSize(Len(element_symbols), self.size)

with_atomic_nums(self, atomic_nums) ==
    IF Len(atomic_nums) = self.size
    THEN BOk([self EXCEPT !.atomic_nums = Some(atomic_nums)])
    ELSE InconsistentSize(Len(atomic_nums), self.size)

with_xyz_coords(self, xyz_coords) ==
    IF Len(xyz_coords) = self.size
    THEN BOk([self EXCEPT !.xyz_coords = Some(xyz_coords)])
    ELSE InconsistentSize(Len(xyz_coords), self.size)

with_fractional_xyz(self, fractional_xyz) ==
    IF Len(fractional_xyz) = self.size
    THEN BOk([self EXCEPT !.fractional_xyz = Some(fractional_xyz)])
    ELSE InconsistentSize(Len(fractional_xyz), self.size)

\* a setter that also accepts a column longer than the declared size
with_atom_ids_lax(self, atom_ids) ==
    IF Len(atom_ids) >= self.size
    THEN BOk([self EXCEPT !.atom_ids = Some(atom_ids)])
    ELSE InconsistentSize(Len(atom_ids), self.size)

with_atom_ids(self, atom_ids) ==
    IF Len(atom_ids) = self.size
    THEN BOk([self EXCEPT !.atom_ids = Some(atom_ids)])
    ELSE InconsistentSize(Len(atom_ids), self.size)

\* a finish that forgets to look at the last column
finish_unchecked_ids(self) ==
    IF ~self.atomic_nums.is_some THEN MissingField("atomic_nums")
    ELSE IF ~self.element_symbols.is_some THEN MissingField("element_symbols")
    ELSE IF ~self.xyz_coords.is_some THEN MissingField("xyz_coords")
    ELSE IF ~self.fractional_xyz.is_some THEN MissingField("fractional_xyz")
    ELSE BOk([self EXCEPT !.state = "Ready"])

finish(self) ==
    IF ~self.atomic_nums.is_some THEN MissingField("atomic_nums")
    ELSE IF ~self.element_symbols.is_some THEN MissingField("element_symbols")
    ELSE IF ~self.xyz_coords.is_some THEN MissingField("xyz_coords")
    ELSE IF ~self.fractional_xyz.is_some THEN MissingField("fractional_xyz")
    ELSE IF ~self.atom_ids.is_some THEN MissingField("atom_ids")
    ELSE BOk([self EXCEPT !.state = "Ready"])

\* Option::unwrap
Unwraps(opts) == \A i \in 1..Len(opts) : opts[i].is_some

\* build is defined for AtomCollectionBuilder<T, Ready> only; each unwrap of
\* an absent column panics
build(self) ==
    IF Unwraps(<<self.element_symbols, self.atomic_nums, self.xyz_coords,
                 self.fractional_xyz, self.atom_ids>>)
    THEN [kind |-> "Ok",
          val |-> [element_symbols |-> self.element_symbols.val,
                   atomic_nums |-> self.atomic_nums.val,
                   xyz_coords |-> self.xyz_coords.val,
                   fractional_xyz |-> self.fractional_xyz.val,
                   atom_ids |-> self.atom_ids.val,
                   size |-> self.size,
                   format_type |-> self.format_type]]
    ELSE Panic

---------------------------------------------------------------------------
(* The builder, one call at a time.  Every setter and finish take `self`   *)
(* by value: the builder lives on only in an Ok result.  One builder and   *)
(* the table built from it are followed at a time: New starts over.        *)

\* the Result without its payload
Outcome(r) == IF r.kind = "Ok" THEN Ok ELSE r

Moved(r) == IF r.kind = "Ok" THEN Some(r.val) ELSE None

InitBuilder ==
    /\ bld = None
    /\ atoms = None
    /\ lm = Idle
    /\ parser = Idle
    /\ doc = Idle
    /\ model = Idle
    /\ call = [op |-> "none"]
    /\ ret = Unit

New ==
    \E n \in 0..MaxSize :
        /\ bld' = Some(new("Msi", n))
        /\ call' = [op |-> "new", size |-> n]
        /\ ret' = Ok
        /\ UNCHANGED notAtomVars
        /\ atoms' = None

SetterCall(name, r, col) ==
    /\ bld' = Moved(r)
    /\ call' = [op |-> name, arg |-> col, size |-> bld.val.size]
    /\ ret' = Outcome(r)
    /\ UNCHANGED notAtomVars
    /\ UNCHANGED atoms

WithElementSymbols ==
    /\ bld.is_some
    /\ \E col \in SymbolColumns :
        SetterCall("with_element_symbols", with_element_symbols(bld.val, col), col)

WithAtomicNums ==
    /\ bld.is_some
    /\ \E col \in AtomicNumColumns :
        SetterCall("with_atomic_nums", with_atomic_nums(bld.val, col), col)

WithXyzCoords ==
    /\ bld.is_some
    /\ \E col \in PointColumns :
        SetterCall("with_xyz_coords", with_xyz_coords(bld.val, col), col)

WithFractionalXyz ==
    /\ bld.is_some
    /\ \E col \in FracColumns :
        SetterCall("with_fractional_xyz", with_fractional_xyz(bld.val, col), col)

WithAtomIds ==
    /\ bld.is_some
    /\ \E col \in IdColumns :
        SetterCall("with_atom_ids", with_atom_ids(bld.val, col), col)

Finish ==
    /\ bld.is_some
    /\ LET r == finish(bld.val) IN
        /\ bld' = Moved(r)
        /\ call' = [op |-> "finish", pre |-> bld.val]
        /\ ret' = Outcome(r)
        /\ UNCHANGED notAtomVars
        /\ UNCHANGED atoms

\* build exists on a Ready builder only (the type state)
Build ==
    /\ bld.is_some
    /\ bld.val.state = "Ready"
    /\ LET r == build(bld.val) IN
        /\ bld' = None
        /\ call' = [op |-> "build", pre |-> bld.val]
        /\ ret' = Outcome(r)
        /\ UNCHANGED notAtomVars
        /\ atoms' = Moved(r)

NextBuilder ==
    \/ New
    \/ WithElementSymbols
    \/ WithAtomicNums
    \/ WithXyzCoords
    \/ WithFractionalXyz
    \/ WithAtomIds
    \/ Finish
    \/ Build

SpecBuilder == InitBuilder /\ [][NextBuilder]_vars

---------------------------------------------------------------------------
(* Claims about the builder *)

SetterNames ==
    {"with_element_symbols", "with_atomic_nums", "with_xyz_coords",
     "with_fractional_xyz", "with_atom_ids"}

\* the column a setter writes
ColumnOf(b, setter) ==
    CASE setter = "with_element_symbols" -> b.element_symbols
      [] setter = "with_atomic_nums" -> b.atomic_nums
      [] setter = "with_xyz_coords" -> b.xyz_coords
      [] setter = "with_fractional_xyz" -> b.fractional_xyz
      [] setter = "with_atom_ids" -> b.atom_ids

ColumnNamed(b, name) ==
    CASE name = "element_symbols" -> b.element_symbols
      [] name = "atomic_nums" -> b.atomic_nums
      [] name = "xyz_coords" -> b.xyz_coords
      [] name = "fractional_xyz" -> b.fractional_xyz
      [] name = "atom_ids" -> b.atom_ids

AllSupplied(b) ==
    /\ b.element_symbols.is_some
    /\ b.atomic_nums.is_some
    /\ b.xyz_coords.is_some
    /\ b.fractional_xyz.is_some
    /\ b.atom_ids.is_some

\* C1: each of the five setters, given a column whose length differs from
\* the declared size, returns InconsistentSize{curr: that length, expected:
\* the size} and no builder holding the column survives the call; given a
\* column of the declared length it succeeds and stores exactly that column.
Thm_C1 ==
    call.op \in SetterNames =>
        IF Len(call.arg) = call.size
        THEN /\ ret = Ok
             /\ bld.is_some
             /\ bld.val.size = call.size
             /\ ColumnOf(bld.val, call.op) = Some(call.arg)
        ELSE /\ ret = InconsistentSize(Len(call.arg), call.size)
             /\ ~bld.is_some

\* a setter was handed a column longer than the declared size
Wit_C1 ==
    /\ call.op = "with_atom_ids"
    /\ Len(call.arg) > call.size
    /\ call.size > 0
    /\ ret.kind = "InconsistentSize"

\* C2: finish succeeds exactly when all five columns were supplied, whatever
\* the order of the setter calls; when it fails it returns MissingField
\* naming a column that is absent; a Ready builder (the only one build can
\* be called on) holds all five columns, so build returns a table.
Thm_C2 ==
    /\ call.op = "finish" =>
        /\ (ret = Ok) <=> AllSupplied(call.pre)
        /\ ret = Ok => bld = Some([call.pre EXCEPT !.state = "Ready"])
        /\ ret # Ok =>
            /\ ret.kind = "MissingField"
            /\ ~ColumnNamed(call.pre, ret.missed).is_some
            /\ ~bld.is_some
    /\ (bld.is_some /\ bld.val.state = "Ready") => AllSupplied(bld.val)
    /\ call.op = "build" =>
        /\ call.pre.state = "Ready"
        /\ ret = Ok
        /\ atoms.is_some

\* finish succeeded on a builder of one atom
Wit_C2 ==
    /\ call.op = "finish"
    /\ ret = Ok
    /\ call.pre.size = 1
    /\ bld.is_some
    /\ bld.val.state = "Ready"

---------------------------------------------------------------------------
(* atom/mod.rs: Atom and AtomCollection *)

\* most rows a table grows to by merging
MaxAtoms == 2
\* largest absolute coordinate a translation may produce
CoordMax == 1

Formats == {"Msi", "Cell"}

InvalidIndex == [kind |-> "InvalidIndex"]

\* Atom<T>
Atom(element_symbol, atomic_number, xyz, fractional_xyz, atom_id) ==
    [element_symbol |-> element_symbol,
     atomic_number |-> atomic_number,
     xyz |-> xyz,
     fractional_xyz |-> fractional_xyz,
     atom_id |-> atom_id]

\* the atoms handed in as Vec<Atom> and as update_atom_at's new atom
AtomInputs ==
    {Atom("C", 6, <<1, 0, 0>>, None, 1),
     Atom("H", 1, <<-1, 0, 0>>, Some(<<0, 0, 0>>), 2),
     Atom("C", 6, <<-1, 0, 0>>, None, 2),
     Atom("H", 1, <<1, 0, 0>>, Some(<<0, 0, 0>>), 1)}

VecAtomInputs == SeqsUpTo(AtomInputs, MaxSize)

\* <[T]>::get and get_mut: the index is a usize counted from 0
InRange(vec, index) == index >= 0 /\ index < Len(vec)

update_symbol_at(self, index, new_symbol) ==
    IF InRange(self.element_symbols, index)
    THEN [ret |-> Ok,
          self |-> [self EXCEPT !.element_symbols[index + 1] = new_symbol]]
    ELSE [ret |-> InvalidIndex, self |-> self]

update_elm_id_at(self, index, new_elm_id) ==
    IF InRange(self.atomic_nums, index)
    THEN [ret |-> Ok,
          self |-> [self EXCEPT !.atomic_nums[index + 1] = new_elm_id]]
    ELSE [ret |-> InvalidIndex, self |-> self]

update_xyz_at(self, index, new_xyz) ==
    IF InRange(self.xyz_coords, index)
    THEN [ret |-> Ok,
          self |-> [self EXCEPT !.xyz_coords[index + 1] = new_xyz]]
    ELSE [ret |-> InvalidIndex, self |-> self]

update_frac_xyz_at(self, index, new_frac) ==
    IF InRange(self.fractional_xyz, index)
    THEN [ret |-> Ok,
          self |-> [self EXCEPT !.fractional_xyz[index + 1] = new_frac]]
    ELSE [ret |-> InvalidIndex, self |-> self]

update_atom_id_at(self, index, new_atom_id) ==
    IF InRange(self.atom_ids, index)
    THEN [ret |-> Ok,
          self |-> [self EXCEPT !.atom_ids[index + 1] = new_atom_id]]
    ELSE [ret |-> InvalidIndex, self |-> self]

\* the first four updates only: the id of the row stays
update_atom_at_keeps_id(self, index, new_atom) ==
    LET r1 == update_symbol_at(self, index, new_atom.element_symbol) IN
    IF r1.ret # Ok THEN r1 ELSE
    LET r2 == update_elm_id_at(r1.self, index, new_atom.atomic_number) IN
    IF r2.ret # Ok THEN r2 ELSE
    LET r3 == update_xyz_at(r2.self, index, new_atom.xyz) IN
    IF r3.ret # Ok THEN r3 ELSE
    update_frac_xyz_at(r3.self, index, new_atom.fractional_xyz)

\* the five updates in turn, each followed by `?`
update_atom_at(self, index, new_atom) ==
    LET r1 == update_symbol_at(self, index, new_atom.element_symbol) IN
    IF r1.ret # Ok THEN r1 ELSE
    LET r2 == update_elm_id_at(r1.self, index, new_atom.atomic_number) IN
    IF r2.ret # Ok THEN r2 ELSE
    LET r3 == update_xyz_at(r2.self, index, new_atom.xyz) IN
    IF r3.ret # Ok THEN r3 ELSE
    LET r4 == update_frac_xyz_at(r3.self, index, new_atom.fractional_xyz) IN
    IF r4.ret # Ok THEN r4 ELSE
    update_atom_id_at(r4.self, index, new_atom.atom_id)

view_atom_at(self, index) ==
    IF /\ InRange(self.element_symbols, index)
       /\ InRange(self.atomic_nums, index)
       /\ InRange(self.xyz_coords, index)
       /\ InRange(self.fractional_xyz, index)
       /\ InRange(self.atom_ids, index)
    THEN [kind |-> "Ok",
          val |-> Atom(self.element_symbols[index + 1],
                       self.atomic_nums[index + 1],
                       self.xyz_coords[index + 1],
                       self.fractional_xyz[index + 1],
                       self.atom_ids[index + 1])]
    ELSE InvalidIndex

\* From<Vec<Atom<T>>> for AtomCollection<T>
from_vec_atoms(T, src) ==
    [element_symbols |-> [i \in 1..Len(src) |-> src[i].element_symbol],
     atomic_nums |-> [i \in 1..Len(src) |-> src[i].atomic_number],
     xyz_coords |-> [i \in 1..Len(src) |-> src[i].xyz],
     fractional_xyz |-> [i \in 1..Len(src) |-> src[i].fractional_xyz],
     atom_ids |-> [i \in 1..Len(src) |-> src[i].atom_id],
     size |-> Len(src),
     format_type |-> T]

\* From<AtomCollection<T>> for Vec<Atom<T>>: view_atom_at(i).unwrap() for
\* every i in 0..size
into_vec_atoms(src) ==
    IF \A i \in 0..(src.size - 1) : view_atom_at(src, i).kind = "Ok"
    THEN [kind |-> "Ok",
          val |-> [i \in 1..src.size |-> view_atom_at(src, i - 1).val]]
    ELSE Panic

\* a merge that keeps the size of the first operand
add_keeps_size(self, rhs) ==
    [element_symbols |-> self.element_symbols \o rhs.element_symbols,
     atomic_nums |-> self.atomic_nums \o rhs.atomic_nums,
     xyz_coords |-> self.xyz_coords \o rhs.xyz_coords,
     fractional_xyz |-> self.fractional_xyz \o rhs.fractional_xyz,
     atom_ids |-> self.atom_ids \o rhs.atom_ids,
     size |-> self.size,
     format_type |-> self.format_type]

\* impl Add for AtomCollection<T>
add(self, rhs) ==
    [element_symbols |-> self.element_symbols \o rhs.element_symbols,
     atomic_nums |-> self.atomic_nums \o rhs.atomic_nums,
     xyz_coords |-> self.xyz_coords \o rhs.xyz_coords,
     fractional_xyz |-> self.fractional_xyz \o rhs.fractional_xyz,
     atom_ids |-> self.atom_ids \o rhs.atom_ids,
     size |-> self.size + rhs.size,
     format_type |-> self.format_type]

\* an f64 is an integer, or NaN, which every operation hands on
NaN == -999999

Fadd(x, y) == IF x = NaN \/ y = NaN THEN NaN ELSE x + y

Fsub(x, y) == IF x = NaN \/ y = NaN THEN NaN ELSE x - y

Fmul(x, y) == IF x = NaN \/ y = NaN THEN NaN ELSE x * y

\* a rotation is given by its matrix, a translation by its vector
MatVec(m, p) ==
    [i \in 1..3 |->
        Fadd(Fadd(Fmul(m[i][1], p[1]), Fmul(m[i][2], p[2])), Fmul(m[i][3], p[3]))]

VecAdd(p, q) == [i \in 1..3 |-> p[i] + q[i]]

VecSub(p, q) == [i \in 1..3 |-> p[i] - q[i]]

RotZ180 == <<<<-1, 0, 0>>, <<0, -1, 0>>, <<0, 0, 1>>>>
RotX180 == <<<<1, 0, 0>>, <<0, -1, 0>>, <<0, 0, -1>>>>
Rotations == {RotZ180, RotX180}
Translations == {<<2, 0, 0>>, <<-2, 0, 0>>}

\* Transformation for AtomCollection<T>
rotate(self, rotate_quatd) ==
    [self EXCEPT !.xyz_coords =
        [i \in 1..Len(self.xyz_coords) |-> MatVec(rotate_quatd, self.xyz_coords[i])]]

translate(self, translate_matrix) ==
    [self EXCEPT !.xyz_coords =
        [i \in 1..Len(self.xyz_coords) |-> VecAdd(self.xyz_coords[i], translate_matrix)]]

\* From<AtomCollection<MsiModel>> for AtomCollection<CellModel>
cell_from_msi(src) == [src EXCEPT !.format_type = "Cell"]

\* Result::unwrap followed by the next call of a builder chain
Chain(r, F(_)) == IF r.kind = "Ok" THEN F(r.val) ELSE Panic

\* From<T: AsRef<AtomCollection<CellModel>>> for AtomCollection<MsiModel>
msi_from_cell(src) ==
    LET S1(b) == with_element_symbols(b, src.element_symbols)
        S2(b) == with_atomic_nums(b, src.atomic_nums)
        S3(b) == with_xyz_coords(b, src.xyz_coords)
        S4(b) == with_fractional_xyz(b, src.fractional_xyz)
        S5(b) == with_atom_ids(b, src.atom_ids)
    IN  Chain(Chain(Chain(Chain(Chain(Chain(Chain(
            BOk(new("Msi", src.size)), S1), S2), S3), S4), S5), finish), build)

---------------------------------------------------------------------------
(* The atom table, one call at a time.  A method taking &mut self leaves   *)
(* the table in place; Add and the conversions consume their operands and  *)
(* the result takes their place.                                           *)

\* indices and values handed to the update methods
Indices == 0..MaxAtoms

\* the six update methods are recorded under one name
UpdateCall(name, r) ==
    /\ atoms' = Some(r.self)
    /\ call' = [op |-> "update"]
    /\ ret' = r.ret
    /\ UNCHANGED notAtomVars
    /\ UNCHANGED bld

FromVecAtoms ==
    /\ ~atoms.is_some
    /\ ~bld.is_some
    /\ \E T \in Formats : \E src \in VecAtomInputs :
        /\ atoms' = Some(from_vec_atoms(T, src))
        /\ bld' = None
        /\ call' = [op |-> "from_vec_atoms", src |-> src]
        /\ ret' = Ok
        /\ UNCHANGED notAtomVars

IntoVecAtoms ==
    /\ atoms.is_some
    /\ LET r == into_vec_atoms(atoms.val) IN
        /\ call' = [op |-> "into_vec_atoms"]
        /\ ret' = r
        /\ UNCHANGED notAtomVars
        /\ atoms' = None
        /\ UNCHANGED bld

UpdateSymbolAt ==
    /\ atoms.is_some
    /\ \E index \in Indices, new_symbol \in Symbols :
        UpdateCall("update_symbol_at", update_symbol_at(atoms.val, index, new_symbol))

UpdateElmIdAt ==
    /\ atoms.is_some
    /\ \E index \in Indices, new_elm_id \in AtomicNums :
        UpdateCall("update_elm_id_at", update_elm_id_at(atoms.val, index, new_elm_id))

UpdateXyzAt ==
    /\ atoms.is_some
    /\ \E index \in Indices, new_xyz \in Points :
        UpdateCall("update_xyz_at", update_xyz_at(atoms.val, index, new_xyz))

UpdateFracXyzAt ==
    /\ atoms.is_some
    /\ \E index \in Indices, new_frac \in Fracs :
        UpdateCall("update_frac_xyz_at", update_frac_xyz_at(atoms.val, index, new_frac))

UpdateAtomIdAt ==
    /\ atoms.is_some
    /\ \E index \in Indices, new_atom_id \in Ids :
        UpdateCall("update_atom_id_at", update_atom_id_at(atoms.val, index, new_atom_id))

UpdateAtomAt ==
    /\ atoms.is_some
    /\ \E index \in Indices, new_atom \in AtomInputs :
        UpdateCall("update_atom_at", update_atom_at(atoms.val, index, new_atom))

AddAtoms ==
    /\ atoms.is_some
    /\ \E src \in VecAtomInputs :
        LET rhs == from_vec_atoms(atoms.val.format_type, src) IN
        /\ atoms.val.size + rhs.size <= MaxAtoms
        /\ atoms' = Some(add(atoms.val, rhs))
        /\ call' = [op |-> "add", lhs |-> atoms.val, rhs |-> rhs]
        /\ ret' = Ok
        /\ UNCHANGED notAtomVars
        /\ UNCHANGED bld

Rotate ==
    /\ atoms.is_some
    /\ \E rotate_quatd \in Rotations :
        /\ atoms' = Some(rotate(atoms.val, rotate_quatd))
        /\ call' = [op |-> "rotate"]
        /\ ret' = Unit
        /\ UNCHANGED notAtomVars
        /\ UNCHANGED bld

WithinCoordMax(coll) ==
    \A i \in 1..Len(coll.xyz_coords) : \A k \in 1..3 :
        /\ coll.xyz_coords[i][k] <= CoordMax
        /\ coll.xyz_coords[i][k] >= -CoordMax

Translate ==
    /\ atoms.is_some
    /\ \E translate_matrix \in Translations :
        /\ WithinCoordMax(translate(atoms.val, translate_matrix))
        /\ atoms' = Some(translate(atoms.val, translate_matrix))
        /\ call' = [op |-> "translate"]
        /\ ret' = Unit
        /\ UNCHANGED notAtomVars
        /\ UNCHANGED bld

CellFromMsi ==
    /\ atoms.is_some
    /\ atoms.val.format_type = "Msi"
    /\ atoms' = Some(cell_from_msi(atoms.val))
    /\ call' = [op |-> "cell_from_msi"]
    /\ ret' = Ok
    /\ UNCHANGED notAtomVars
    /\ UNCHANGED bld

MsiFromCell ==
    /\ atoms.is_some
    /\ atoms.val.format_type = "Cell"
    /\ LET r == msi_from_cell(atoms.val) IN
        /\ atoms' = Moved(r)
        /\ call' = [op |-> "msi_from_cell"]
        /\ ret' = Outcome(r)
        /\ UNCHANGED notAtomVars
        /\ UNCHANGED bld

NextColl ==
    \/ FromVecAtoms
    \/ IntoVecAtoms
    \/ UpdateSymbolAt
    \/ UpdateElmIdAt
    \/ UpdateXyzAt
    \/ UpdateFracXyzAt
    \/ UpdateAtomIdAt
    \/ UpdateAtomAt
    \/ AddAtoms
    \/ Rotate
    \/ Translate
    \/ CellFromMsi
    \/ MsiFromCell

NextAtoms == NextBuilder \/ NextColl

SpecAtoms == InitBuilder /\ [][NextAtoms]_vars

---------------------------------------------------------------------------
(* Claims about the atom table *)

EqualColumns(coll) ==
    /\ Len(coll.element_symbols) = coll.size
    /\ Len(coll.atomic_nums) = coll.size
    /\ Len(coll.xyz_coords) = coll.size
    /\ Len(coll.fractional_xyz) = coll.size
    /\ Len(coll.atom_ids) = coll.size

\* C3: in every atom table, however it was built (builder, Vec<Atom>) and
\* whatever updates, rotations, translations, merges and format conversions
\* followed, the five columns have the same length, and it is the size field.
Thm_C3 == atoms.is_some => EqualColumns(atoms.val)

\* a table of two rows made by a merge of two non-empty tables
Wit_C3 ==
    /\ atoms.is_some
    /\ call.op = "add"
    /\ call.lhs.size > 0
    /\ call.rhs.size > 0
    /\ atoms.val.size = 2

MaxOf(ids) == IF Len(ids) = 0 THEN 0
              ELSE CHOOSE m \in {ids[i] : i \in 1..Len(ids)} :
                     \A i \in 1..Len(ids) : ids[i] <= m

Shifted(ids, by) == [i \in 1..Len(ids) |-> ids[i] + by]

\* C6: adding two atom tables appends every column (rows of the first, then
\* of the second), sums the sizes, and adds the first operand's maximum id
\* (or its atom count) to each atom id of the second operand.
Claim_C6 ==
    (call.op = "add" /\ atoms.is_some) =>
        /\ atoms.val.element_symbols =
               call.lhs.element_symbols \o call.rhs.element_symbols
        /\ atoms.val.atomic_nums = call.lhs.atomic_nums \o call.rhs.atomic_nums
        /\ atoms.val.xyz_coords = call.lhs.xyz_coords \o call.rhs.xyz_coords
        /\ atoms.val.fractional_xyz =
               call.lhs.fractional_xyz \o call.rhs.fractional_xyz
        /\ atoms.val.size = call.lhs.size + call.rhs.size
        /\ \/ atoms.val.atom_ids = call.lhs.atom_ids
                  \o Shifted(call.rhs.atom_ids, MaxOf(call.lhs.atom_ids))
           \/ atoms.val.atom_ids = call.lhs.atom_ids
                  \o Shifted(call.rhs.atom_ids, call.lhs.size)

---------------------------------------------------------------------------
(* LatticeModel<T>: lattice vectors and a Vec<Atom<T>> *)

Identity3 == <<<<1, 0, 0>>, <<0, 1, 0>>, <<0, 0, 1>>>>

\* the Option<LatticeVectors<T>> handed to LatticeModel::new
LatticeVectorInputs == {None, Some(Identity3)}

\* LatticeModel::new
lattice_model_new(lattice_vectors, atom_vec, model_type) ==
    [lattice_vectors |-> lattice_vectors,
     atoms |-> atom_vec,
     model_type |-> model_type]

MatMul(m, n) ==
    [i \in 1..3 |-> [j \in 1..3 |->
        Fadd(Fadd(Fmul(m[i][1], n[1][j]), Fmul(m[i][2], n[2][j])),
             Fmul(m[i][3], n[3][j]))]]

\* Transformation for Atom<T>
atom_rotate(atom, rotate_quatd) ==
    [atom EXCEPT !.xyz = MatVec(rotate_quatd, atom.xyz)]

atom_translate(atom, translate_matrix) ==
    [atom EXCEPT !.xyz = VecAdd(atom.xyz, translate_matrix)]

\* Transformation for LatticeVectors<T>
lattice_vectors_rotate(vectors, rotate_quatd) == MatMul(rotate_quatd, vectors)

\* LatticeVectors::translate has an empty body
lattice_vectors_translate(vectors, translate_matrix) == vectors

\* a rotate that turns the atoms and leaves the lattice vectors
lattice_model_rotate_atoms_only(self, rotate_quatd) ==
    [self EXCEPT
        !.atoms = [i \in 1..Len(self.atoms) |->
                      atom_rotate(self.atoms[i], rotate_quatd)]]

\* Transformation for LatticeModel<T>
lattice_model_rotate(self, rotate_quatd) ==
    [self EXCEPT
        !.atoms = [i \in 1..Len(self.atoms) |->
                      atom_rotate(self.atoms[i], rotate_quatd)],
        !.lattice_vectors =
            IF self.lattice_vectors.is_some
            THEN Some(lattice_vectors_rotate(self.lattice_vectors.val, rotate_quatd))
            ELSE None]

lattice_model_translate(self, translate_matrix) ==
    [self EXCEPT
        !.atoms = [i \in 1..Len(self.atoms) |->
                      atom_translate(self.atoms[i], translate_matrix)]]

\* Add for LatticeModel<T> with the ids of rhs left as they are
lattice_model_add_unshifted(self, rhs) ==
    [self EXCEPT !.atoms = self.atoms \o rhs.atoms]

\* Add for LatticeModel<T>: last_number_id is the number of atoms of self
lattice_model_add(self, rhs) ==
    LET last_number_id == Len(self.atoms)
        pushed == [i \in 1..Len(rhs.atoms) |->
                     [rhs.atoms[i] EXCEPT !.atom_id = @ + last_number_id]]
    IN [lattice_vectors |-> self.lattice_vectors,
        atoms |-> self.atoms \o pushed,
        model_type |-> self.model_type]

InitLattice ==
    /\ bld = Idle
    /\ atoms = Idle
    /\ lm = None
    /\ parser = Idle
    /\ doc = Idle
    /\ model = Idle
    /\ call = [op |-> "none"]
    /\ ret = Unit

LatticeModelNew ==
    /\ \E lattice_vectors \in LatticeVectorInputs, atom_vec \in VecAtomInputs,
          model_type \in Formats :
        /\ lm' = Some(lattice_model_new(lattice_vectors, atom_vec, model_type))
        /\ call' = [op |-> "lattice_model_new"]
    /\ ret' = Ok
    /\ UNCHANGED notLatticeVars

LatticeModelAdd ==
    /\ lm.is_some
    /\ \E lattice_vectors \in LatticeVectorInputs, atom_vec \in VecAtomInputs :
        LET rhs == lattice_model_new(lattice_vectors, atom_vec, lm.val.model_type) IN
        /\ Len(lm.val.atoms) + Len(rhs.atoms) <= MaxAtoms
        /\ lm' = Some(lattice_model_add(lm.val, rhs))
        /\ call' = [op |-> "lattice_model_add", lhs |-> lm.val, rhs |-> rhs]
    /\ ret' = Ok
    /\ UNCHANGED notLatticeVars

LatticeModelRotate ==
    /\ lm.is_some
    /\ \E rotate_quatd \in Rotations :
        lm' = Some(lattice_model_rotate(lm.val, rotate_quatd))
    /\ call' = [op |-> "lattice_model_rotate"]
    /\ ret' = Unit
    /\ UNCHANGED notLatticeVars

LatticeWithinCoordMax(self) ==
    \A i \in 1..Len(self.atoms) : \A k \in 1..3 :
        /\ self.atoms[i].xyz[k] <= CoordMax
        /\ self.atoms[i].xyz[k] >= -CoordMax

LatticeModelTranslate ==
    /\ lm.is_some
    /\ \E translate_matrix \in Translations :
        /\ LatticeWithinCoordMax(lattice_model_translate(lm.val, translate_matrix))
        /\ lm' = Some(lattice_model_translate(lm.val, translate_matrix))
    /\ call' = [op |-> "lattice_model_translate"]
    /\ ret' = Unit
    /\ UNCHANGED notLatticeVars

\* Transformation::translate of the lattice vectors of the model
LatticeVectorsTranslate ==
    /\ lm.is_some
    /\ lm.val.lattice_vectors.is_some
    /\ \E translate_matrix \in Translations :
        lm' = Some([lm.val EXCEPT !.lattice_vectors =
                  Some(lattice_vectors_translate(lm.val.lattice_vectors.val,
                                                 translate_matrix))])
    /\ call' = [op |-> "lattice_vectors_translate"]
    /\ ret' = Unit
    /\ UNCHANGED notLatticeVars

NextLattice ==
    \/ LatticeModelNew
    \/ LatticeModelAdd
    \/ LatticeModelRotate
    \/ LatticeModelTranslate
    \/ LatticeVectorsTranslate

SpecLattice == InitLattice /\ [][NextLattice]_vars

---------------------------------------------------------------------------
(* Claims about the merge of two models *)

IdsOf(atom_vec) == [i \in 1..Len(atom_vec) |-> atom_vec[i].atom_id]

WithIdsShifted(atom_vec, by) ==
    [i \in 1..Len(atom_vec) |-> [atom_vec[i] EXCEPT !.atom_id = @ + by]]

Distinct(ids) ==
    \A i, j \in 1..Len(ids) : i /= j => ids[i] /= ids[j]

\* C4: the merge A + B of two models has as many atoms as A and B together,
\* starts with the atoms of A, ids unchanged, and continues with the atoms of
\* B, each with its id raised by the maximum id of A or each with its id
\* raised by the number of atoms of A; ids [1] and [1] merge to [1, 2].
Thm_C4 ==
    call.op = "lattice_model_add" =>
        LET A == call.lhs.atoms
            B == call.rhs.atoms
            M == lm.val.atoms
        IN /\ Len(M) = Len(A) + Len(B)
           /\ SubSeq(M, 1, Len(A)) = A
           /\ \/ SubSeq(M, Len(A) + 1, Len(M)) = WithIdsShifted(B, MaxOf(IdsOf(A)))
              \/ SubSeq(M, Len(A) + 1, Len(M)) = WithIdsShifted(B, Len(A))
           /\ (IdsOf(A) = <<1>> /\ IdsOf(B) = <<1>>) => IdsOf(M) = <<1, 2>>

\* two single-atom models with ids [1] and [1] have been merged
Wit_C4 ==
    /\ call.op = "lattice_model_add"
    /\ IdsOf(call.lhs.atoms) = <<1>>
    /\ IdsOf(call.rhs.atoms) = <<1>>
    /\ IdsOf(lm.val.atoms) = <<1, 2>>

\* C5: after a merge A + B every id that came from B is greater than the
\* maximum id of A, whatever the ids of A are, and if the ids of A are
\* pairwise distinct and those of B are, so are the ids of the merged model.
Claim_C5 ==
    call.op = "lattice_model_add" =>
        LET A == call.lhs.atoms
            B == call.rhs.atoms
            M == lm.val.atoms
        IN /\ \A j \in Len(A) + 1..Len(M) : M[j].atom_id > MaxOf(IdsOf(A))
           /\ (Distinct(IdsOf(A)) /\ Distinct(IdsOf(B))) => Distinct(IdsOf(M))

---------------------------------------------------------------------------
(* Lookups by atom id: LatticeModel (lattice/mod.rs) and VisitCollection
   for AtomCollection (atom/visitor.rs) *)

\* the index `0 - 1` wraps to when the build has no overflow checks
\* (usize::MAX, or u32::MAX widened): only that no table is that long matters
WrappedIndex == 2147483647

\* `atom_id - 1` on an unsigned integer: 0 - 1 panics in a build with overflow
\* checks and wraps in a build without them
sub_one(atom_id, overflow_checks) ==
    IF atom_id >= 1 THEN [kind |-> "Ok", val |-> atom_id - 1]
    ELSE IF overflow_checks THEN Panic
    ELSE [kind |-> "Ok", val |-> WrappedIndex]

\* <[T]>::get
get(vec, index) == IF InRange(vec, index) THEN Some(vec[index + 1]) ELSE None

\* Option::ok_or(InvalidIndex)
ok_or_invalid(opt) ==
    IF opt.is_some THEN [kind |-> "Ok", val |-> opt.val] ELSE InvalidIndex

\* LatticeModel::get_atom_by_id
get_atom_by_id(self, atom_id, overflow_checks) ==
    LET index == sub_one(atom_id, overflow_checks) IN
    IF index.kind = "Panic" THEN Panic
    ELSE ok_or_invalid(get(self.atoms, index.val))

\* LatticeModel::get_mut_atom_by_id
get_mut_atom_by_id(self, atom_id, overflow_checks) ==
    LET index == sub_one(atom_id, overflow_checks) IN
    IF index.kind = "Panic" THEN Panic
    ELSE ok_or_invalid(get(self.atoms, index.val))

\* LatticeModel::get_vector_ab
lattice_get_vector_ab(self, a_id, b_id, overflow_checks) ==
    IF a_id /= b_id
    THEN LET atom_a == get_atom_by_id(self, a_id, overflow_checks)
             atom_b == get_atom_by_id(self, b_id, overflow_checks)
         IN IF atom_a.kind /= "Ok" THEN atom_a
            ELSE IF atom_b.kind /= "Ok" THEN atom_b
            ELSE [kind |-> "Ok", val |-> VecSub(atom_b.val.xyz, atom_a.val.xyz)]
    ELSE InvalidIndex

\* VisitCollection::get_xyz_by_id: Ok wraps the Option it returns
get_xyz_by_id(self, atom_id, overflow_checks) ==
    LET index == sub_one(atom_id, overflow_checks) IN
    IF index.kind = "Panic" THEN Panic
    ELSE [kind |-> "Ok", val |-> get(self.xyz_coords, index.val)]

\* VisitCollection::get_multiple_xyz_by_id
get_multiple_xyz_by_id(self, atom_ids, overflow_checks) ==
    LET each == [i \in 1..Len(atom_ids) |->
                    get_xyz_by_id(self, atom_ids[i], overflow_checks)]
    IN IF \E i \in 1..Len(atom_ids) : each[i].kind = "Panic" THEN Panic
       ELSE [kind |-> "Ok", val |-> [i \in 1..Len(atom_ids) |-> each[i].val]]

\* VisitCollection::view_atom_at_index
view_atom_at_index(self, index) ==
    IF ~InRange(self.element_symbols, index) THEN InvalidIndex
    ELSE IF ~InRange(self.atomic_nums, index) THEN InvalidIndex
    ELSE IF ~InRange(self.xyz_coords, index) THEN InvalidIndex
    ELSE IF ~InRange(self.fractional_xyz, index) THEN InvalidIndex
    ELSE IF ~InRange(self.atom_ids, index) THEN InvalidIndex
    ELSE [kind |-> "Ok",
          val |-> [element_symbol |-> self.element_symbols[index + 1],
                   atomic_number |-> self.atomic_nums[index + 1],
                   xyz |-> self.xyz_coords[index + 1],
                   fractional_xyz |-> self.fractional_xyz[index + 1],
                   atom_id |-> self.atom_ids[index + 1],
                   format_type |-> self.format_type]]

\* VisitCollection::view_atom_by_id
view_atom_by_id(self, atom_id, overflow_checks) ==
    LET index == sub_one(atom_id, overflow_checks) IN
    IF index.kind = "Panic" THEN Panic
    ELSE view_atom_at_index(self, index.val)

\* Option::unwrap
unwrap(r) ==
    IF r.kind = "Panic" THEN Panic
    ELSE IF r.val.is_some THEN [kind |-> "Ok", val |-> r.val.val]
    ELSE Panic

\* VisitCollection::get_vector_ab
get_vector_ab(self, a_id, b_id, overflow_checks) ==
    IF a_id /= b_id
    THEN LET atom_a_xyz == unwrap(get_xyz_by_id(self, a_id, overflow_checks))
             atom_b_xyz == unwrap(get_xyz_by_id(self, b_id, overflow_checks))
         IN IF atom_a_xyz.kind = "Panic" THEN Panic
            ELSE IF atom_b_xyz.kind = "Panic" THEN Panic
            ELSE [kind |-> "Ok", val |-> VecSub(atom_b_xyz.val, atom_a_xyz.val)]
    ELSE InvalidIndex

\* the atom ids and row indices asked for: 0, the rows, and one past them
ProbeIds == 0..MaxAtoms + 1
ProbeIdLists == SeqsUpTo(ProbeIds, MaxSize)
LookupInputs == SeqsUpTo(AtomInputs, MaxAtoms)

\* one Vec<Atom> held both as a LatticeModel and as an AtomCollection
InitLookup ==
    /\ \E atom_vec \in LookupInputs :
        /\ lm = Some(lattice_model_new(None, atom_vec, "Msi"))
        /\ atoms = Some(from_vec_atoms("Msi", atom_vec))
    /\ bld = Idle
    /\ parser = Idle
    /\ doc = Idle
    /\ model = Idle
    /\ call = [op |-> "none"]
    /\ ret = Unit

GetAtomById ==
    /\ \E atom_id \in ProbeIds, overflow_checks \in BOOLEAN :
        /\ call' = [op |-> "get_atom_by_id", atom_id |-> atom_id]
        /\ ret' = get_atom_by_id(lm.val, atom_id, overflow_checks)
    /\ UNCHANGED <<bld, atoms, lm, parser, doc, model>>

GetMutAtomById ==
    /\ \E atom_id \in ProbeIds, overflow_checks \in BOOLEAN :
        /\ call' = [op |-> "get_mut_atom_by_id", atom_id |-> atom_id]
        /\ ret' = get_mut_atom_by_id(lm.val, atom_id, overflow_checks)
    /\ UNCHANGED <<bld, atoms, lm, parser, doc, model>>

LatticeGetVectorAb ==
    /\ \E a_id \in ProbeIds, b_id \in ProbeIds, overflow_checks \in BOOLEAN :
        /\ call' = [op |-> "lattice_get_vector_ab", a_id |-> a_id, b_id |-> b_id]
        /\ ret' = lattice_get_vector_ab(lm.val, a_id, b_id, overflow_checks)
    /\ UNCHANGED <<bld, atoms, lm, parser, doc, model>>

GetXyzById ==
    /\ \E atom_id \in ProbeIds, overflow_checks \in BOOLEAN :
        LET r == get_xyz_by_id(atoms.val, atom_id, overflow_checks) IN
        /\ call' = [op |-> "get_xyz_by_id", atom_id |-> atom_id]
        /\ ret' = IF r.kind = "Panic" THEN Panic ELSE r.val
    /\ UNCHANGED <<bld, atoms, lm, parser, doc, model>>

GetMultipleXyzById ==
    /\ \E atom_ids \in ProbeIdLists, overflow_checks \in BOOLEAN :
        /\ call' = [op |-> "get_multiple_xyz_by_id", atom_ids |-> atom_ids]
        /\ ret' = get_multiple_xyz_by_id(atoms.val, atom_ids, overflow_checks)
    /\ UNCHANGED <<bld, atoms, lm, parser, doc, model>>

ViewAtomAtIndex ==
    /\ \E index \in ProbeIds :
        /\ call' = [op |-> "view_atom_at_index", index |-> index]
        /\ ret' = view_atom_at_index(atoms.val, index)
    /\ UNCHANGED <<bld, atoms, lm, parser, doc, model>>

ViewAtomById ==
    /\ \E atom_id \in ProbeIds, overflow_checks \in BOOLEAN :
        /\ call' = [op |-> "view_atom_by_id", atom_id |-> atom_id]
        /\ ret' = view_atom_by_id(atoms.val, atom_id, overflow_checks)
    /\ UNCHANGED <<bld, atoms, lm, parser, doc, model>>

GetVectorAb ==
    /\ \E a_id \in ProbeIds, b_id \in ProbeIds, overflow_checks \in BOOLEAN :
        /\ call' = [op |-> "get_vector_ab", a_id |-> a_id, b_id |-> b_id]
        /\ ret' = get_vector_ab(atoms.val, a_id, b_id, overflow_checks)
    /\ UNCHANGED <<bld, atoms, lm, parser, doc, model>>

NextLookup ==
    \/ GetAtomById
    \/ GetMutAtomById
    \/ LatticeGetVectorAb
    \/ GetXyzById
    \/ GetMultipleXyzById
    \/ ViewAtomAtIndex
    \/ ViewAtomById
    \/ GetVectorAb

SpecLookup == InitLookup /\ [][NextLookup]_vars

---------------------------------------------------------------------------
(* Claims about the lookups *)

IdInTable(atom_id) == atom_id >= 1 /\ atom_id <= Len(lm.val.atoms)

\* C7: every lookup by atom id reads row id - 1; for an id outside 1..N (0
\* included) it returns InvalidIndex, or None where it returns an Option, and
\* it never panics; get_vector_ab returns InvalidIndex for two equal ids and
\* xyz(b) - xyz(a) for two distinct ids of the table.
Claim_C7 ==
    /\ ret /= Panic
    /\ call.op \in {"get_atom_by_id", "get_mut_atom_by_id"} =>
           ret = IF IdInTable(call.atom_id)
                 THEN [kind |-> "Ok", val |-> lm.val.atoms[call.atom_id]]
                 ELSE InvalidIndex
    /\ call.op = "view_atom_by_id" =>
           IF IdInTable(call.atom_id)
           THEN ret.kind = "Ok" /\ ret.val.xyz = atoms.val.xyz_coords[call.atom_id]
           ELSE ret = InvalidIndex
    /\ call.op = "get_xyz_by_id" =>
           ret = IF IdInTable(call.atom_id)
                 THEN Some(atoms.val.xyz_coords[call.atom_id])
                 ELSE None
    /\ call.op = "get_multiple_xyz_by_id" =>
           /\ ret.kind = "Ok"
           /\ \A i \in 1..Len(call.atom_ids) :
                  ret.val[i] = IF IdInTable(call.atom_ids[i])
                               THEN Some(atoms.val.xyz_coords[call.atom_ids[i]])
                               ELSE None
    /\ call.op \in {"lattice_get_vector_ab", "get_vector_ab"} =>
           ret = IF call.a_id = call.b_id THEN InvalidIndex
                 ELSE IF IdInTable(call.a_id) /\ IdInTable(call.b_id)
                 THEN [kind |-> "Ok",
                       val |-> VecSub(atoms.val.xyz_coords[call.b_id],
                                      atoms.val.xyz_coords[call.a_id])]
                 ELSE InvalidIndex

---------------------------------------------------------------------------
(* Text and the nom combinators the MSI parser is written with.
   A text is a sequence of one-character strings. *)

Digits == {"0", "1", "2", "3", "4", "5", "6", "7", "8", "9"}
Letters ==
    {"a", "b", "c", "d", "e", "f", "g", "h", "i", "j", "k", "l", "m",
     "n", "o", "p", "q", "r", "s", "t", "u", "v", "w", "x", "y", "z",
     "A", "B", "C", "D", "E", "F", "G", "H", "I", "J", "K", "L", "M",
     "N", "O", "P", "Q", "R", "S", "T", "U", "V", "W", "X", "Y", "Z"}
Blanks == {" ", "\t"}
LF == <<"\n">>
CRLF == <<"\r", "\n">>

Take(s, n) == SubSeq(s, 1, n)
Drop(s, n) == SubSeq(s, n + 1, Len(s))
StartsWith(s, t) == Len(s) >= Len(t) /\ SubSeq(s, 1, Len(t)) = t

\* length of the longest prefix of s made of characters of class
SpanLen(s, class) ==
    CHOOSE n \in 0..Len(s) :
        /\ \A i \in 1..n : s[i] \in class
        /\ n < Len(s) => s[n + 1] \notin class

\* offset of the first occurrence of t in s, or -1
FindFirst(s, t) ==
    LET hits == {i \in 0..(Len(s) - Len(t)) : SubSeq(s, i + 1, i + Len(t)) = t}
    IN IF hits = {} THEN -1 ELSE CHOOSE i \in hits : \A j \in hits : i <= j

\* IResult: Ok((rest, out)) and Err(Error)
POk(rest, out) == [kind |-> "Ok", rest |-> rest, out |-> out]
PErr == [kind |-> "Err"]

\* the parsers of nom, as values
tag(t) == [k |-> "tag", t |-> t]
char(c) == [k |-> "tag", t |-> <<c>>]
one_of(class) == [k |-> "one_of", class |-> class]
space0 == [k |-> "span0", class |-> Blanks]
space1 == [k |-> "span1", class |-> Blanks]
alpha1 == [k |-> "span1", class |-> Letters]
alphanumeric1 == [k |-> "span1", class |-> Letters \cup Digits]
line_ending == [k |-> "line_ending"]
take_until(t) == [k |-> "take_until", t |-> t]
tuple(ps) == [k |-> "tuple", ps |-> ps]
alt(ps) == [k |-> "alt", ps |-> ps]
delimited(a, b, c) == [k |-> "pick", ps |-> <<a, b, c>>, at |-> 2]
preceded(a, b) == [k |-> "pick", ps |-> <<a, b>>, at |-> 2]
terminated(a, b) == [k |-> "pick", ps |-> <<a, b>>, at |-> 1]
separated_pair(a, sep, b) == [k |-> "pair", ps |-> <<a, sep, b>>]
recognize(p) == [k |-> "recognize", p |-> p]
peek(p) == [k |-> "peek", p |-> p]
opt(p) == [k |-> "opt", p |-> p]
many0(p) == [k |-> "many0", p |-> p]
many1(p) == [k |-> "many1", p |-> p]
separated_list1(sep, p) == [k |-> "separated_list1", sep |-> sep, p |-> p]

RECURSIVE Run(_, _)
RECURSIVE RunTuple(_, _)
RECURSIVE RunAlt(_, _)
RECURSIVE RunMany(_, _)
RECURSIVE RunSeparated(_, _, _)

\* tuple: every parser in turn, each on what the one before left
RunTuple(ps, s) ==
    IF Len(ps) = 0 THEN POk(s, <<>>)
    ELSE LET r == Run(Head(ps), s) IN
         IF r.kind /= "Ok" THEN PErr
         ELSE LET t == RunTuple(Tail(ps), r.rest) IN
              IF t.kind /= "Ok" THEN PErr
              ELSE POk(t.rest, <<r.out>> \o t.out)

\* alt: the first parser that succeeds
RunAlt(ps, s) ==
    IF Len(ps) = 0 THEN PErr
    ELSE LET r == Run(Head(ps), s) IN
         IF r.kind = "Ok" THEN r ELSE RunAlt(Tail(ps), s)

\* many0: repeats until the parser fails; fails if it matches the empty text
RunMany(p, s) ==
    LET r == Run(p, s) IN
    IF r.kind /= "Ok" THEN POk(s, <<>>)
    ELSE IF Len(r.rest) = Len(s) THEN PErr
    ELSE LET t == RunMany(p, r.rest) IN
         IF t.kind /= "Ok" THEN PErr
         ELSE POk(t.rest, <<r.out>> \o t.out)

\* the (sep, p) repetitions of separated_list1 after its first element
RunSeparated(sep, p, s) ==
    LET d == Run(sep, s) IN
    IF d.kind /= "Ok" THEN POk(s, <<>>)
    ELSE LET r == Run(p, d.rest) IN
         IF r.kind /= "Ok" THEN POk(s, <<>>)
         ELSE IF Len(r.rest) = Len(s) THEN PErr
         ELSE LET t == RunSeparated(sep, p, r.rest) IN
              IF t.kind /= "Ok" THEN PErr
              ELSE POk(t.rest, <<r.out>> \o t.out)

\* a parser applied to a text
Run(p, s) ==
    CASE p.k = "tag" ->
            IF StartsWith(s, p.t) THEN POk(Drop(s, Len(p.t)), p.t) ELSE PErr
      [] p.k = "one_of" ->
            IF Len(s) > 0 /\ s[1] \in p.class THEN POk(Drop(s, 1), <<s[1]>>)
            ELSE PErr
      [] p.k = "span0" ->
            LET n == SpanLen(s, p.class) IN POk(Drop(s, n), Take(s, n))
      [] p.k = "span1" ->
            LET n == SpanLen(s, p.class) IN
            IF n = 0 THEN PErr ELSE POk(Drop(s, n), Take(s, n))
      [] p.k = "line_ending" ->
            IF StartsWith(s, LF) THEN POk(Drop(s, 1), LF)
            ELSE IF StartsWith(s, CRLF) THEN POk(Drop(s, 2), CRLF)
            ELSE PErr
      [] p.k = "take_until" ->
            LET n == FindFirst(s, p.t) IN
            IF n < 0 THEN PErr ELSE POk(Drop(s, n), Take(s, n))
      [] p.k = "tuple" -> RunTuple(p.ps, s)
      [] p.k = "alt" -> RunAlt(p.ps, s)
      [] p.k = "pick" ->
            LET r == RunTuple(p.ps, s) IN
            IF r.kind /= "Ok" THEN PErr ELSE POk(r.rest, r.out[p.at])
      [] p.k = "pair" ->
            LET r == RunTuple(p.ps, s) IN
            IF r.kind /= "Ok" THEN PErr ELSE POk(r.rest, <<r.out[1], r.out[3]>>)
      [] p.k = "recognize" ->
            LET r == Run(p.p, s) IN
            IF r.kind /= "Ok" THEN PErr
            ELSE POk(r.rest, Take(s, Len(s) - Len(r.rest)))
      [] p.k = "peek" ->
            LET r == Run(p.p, s) IN
            IF r.kind /= "Ok" THEN PErr ELSE POk(s, r.out)
      [] p.k = "opt" ->
            LET r == Run(p.p, s) IN
            IF r.kind /= "Ok" THEN POk(s, None) ELSE POk(r.rest, Some(r.out))
      [] p.k = "many0" -> RunMany(p.p, s)
      [] p.k = "many1" ->
            LET r == RunMany(p.p, s) IN
            IF r.kind /= "Ok" \/ Len(r.out) = 0 THEN PErr ELSE r
      [] p.k = "separated_list1" ->
            LET r == Run(p.p, s) IN
            IF r.kind /= "Ok" THEN PErr
            ELSE LET t == RunSeparated(p.sep, p.p, r.rest) IN
                 IF t.kind /= "Ok" THEN PErr
                 ELSE POk(t.rest, <<r.out>> \o t.out)

\* parser/mod.rs
decimal == recognize(many1(one_of(Digits)))

float ==
    alt(<<recognize(tuple(<<char("."), decimal,
                            opt(tuple(<<one_of({"e", "E"}), opt(one_of({"+", "-"})),
                                        decimal>>))>>)),
          recognize(tuple(<<decimal, opt(preceded(char("."), decimal)),
                            one_of({"e", "E"}), opt(one_of({"+", "-"})), decimal>>)),
          recognize(tuple(<<opt(one_of({"+", "-"})), decimal, char("."),
                            opt(decimal), opt(one_of({"e", "E"})),
                            opt(one_of({"+", "-"})), opt(decimal)>>))>>)

\* the fields of a model scope (MsiParser, any state)
next_field ==
    alt(<<preceded(space1, tag(<<"(">>)),
          delimited(space1, tag(<<")">>), line_ending)>>)

take_attribute ==
    delimited(tuple(<<space0, tag(<<"(">>), tag(<<"A">>), space1>>),
              alt(<<take_until(<<")", "\r", "\n">>), take_until(<<")", "\n">>)>>),
              tuple(<<tag(<<")">>), line_ending>>))

take_object ==
    delimited(tuple(<<space0, tag(<<"(">>), decimal, space1>>),
              take_until(<<" ", " ", ")">>),
              tuple(<<space0, tag(<<")">>), line_ending>>))

get_object_type == terminated(alpha1, line_ending)

get_attribute_type ==
    peek(delimited(tuple(<<alpha1, space1>>),
                   recognize(many1(alt(<<alphanumeric1, tag(<<"/">>)>>))),
                   space1))

get_field == alt(<<take_attribute, take_object>>)

model_end == tag(<<")">>)

get_to_model == take_until(<<"(", "1", " ", "M", "o", "d", "e", "l">>)

enter_model == recognize(tuple(<<tag(<<"(", "1", " ", "M", "o", "d", "e", "l">>), line_ending>>))

---------------------------------------------------------------------------
(* Numbers: str::parse of the matched literals *)

DigitChars == <<"0", "1", "2", "3", "4", "5", "6", "7", "8", "9">>
DigitOf(c) == (CHOOSE d \in 1..10 : DigitChars[d] = c) - 1

RECURSIVE DigitsValue(_)
DigitsValue(ds) ==
    IF Len(ds) = 0 THEN 0
    ELSE 10 * DigitsValue(SubSeq(ds, 1, Len(ds) - 1)) + DigitOf(ds[Len(ds)])

U8Max == 255

\* str::parse::<u8>: Err for a number above u8::MAX
parse_u8(text) ==
    IF Len(text) = 0 \/ SpanLen(text, Digits) /= Len(text) THEN PErr
    ELSE IF DigitsValue(text) > U8Max THEN PErr
    ELSE [kind |-> "Ok", val |-> DigitsValue(text)]

\* str::parse::<u32> (the literals of the model stay far below u32::MAX)
parse_u32(text) ==
    IF Len(text) = 0 \/ SpanLen(text, Digits) /= Len(text) THEN PErr
    ELSE [kind |-> "Ok", val |-> DigitsValue(text)]

\* an f64 is kept as the decimal number it was written as: (-1)^neg * m * 10^e
\* with m not divisible by 10; 0 and -0 are the same number
RECURSIVE Dec(_, _, _)
Dec(neg, m, e) ==
    IF m = 0 THEN [neg |-> FALSE, m |-> 0, e |-> 0]
    ELSE IF m % 10 = 0 THEN Dec(neg, m \div 10, e + 1)
    ELSE [neg |-> neg, m |-> m, e |-> e]

RECURSIVE WithoutTrailingZeros(_)
\* the decimals of a literal without the zeros that end them
WithoutTrailingZeros(ds) ==
    IF Len(ds) > 0 /\ ds[Len(ds)] = "0"
    THEN WithoutTrailingZeros(SubSeq(ds, 1, Len(ds) - 1))
    ELSE ds

\* str::parse::<f64>: [sign] digits [. digits] [e|E [sign] digits], with a
\* digit before or after the point, and nothing else
parse_f64(text) ==
    LET exponent(neg, mant, nf, expNeg, expDigits) ==
            IF Len(expDigits) = 0 \/ SpanLen(expDigits, Digits) /= Len(expDigits)
            THEN PErr
            ELSE [kind |-> "Ok",
                  val |-> Dec(neg, DigitsValue(mant),
                              (IF expNeg THEN 0 - DigitsValue(expDigits)
                               ELSE DigitsValue(expDigits)) - nf)]
        mantissa(neg, mant, nf, afterFrac) ==
            IF Len(mant) = 0 THEN PErr
            ELSE IF Len(afterFrac) = 0
            THEN [kind |-> "Ok", val |-> Dec(neg, DigitsValue(mant), 0 - nf)]
            ELSE IF afterFrac[1] \notin {"e", "E"} THEN PErr
            ELSE IF Len(afterFrac) > 1 /\ afterFrac[2] \in {"+", "-"}
            THEN exponent(neg, mant, nf, afterFrac[2] = "-", Drop(afterFrac, 2))
            ELSE exponent(neg, mant, nf, FALSE, Drop(afterFrac, 1))
        decimals(neg, int, all, kept, afterFrac) ==
            IF Len(int) = 0 /\ Len(all) = 0 THEN PErr
            ELSE IF Len(int) = 0 /\ Len(kept) = 0
            THEN mantissa(neg, <<"0">>, 0, afterFrac)
            ELSE mantissa(neg, int \o kept, Len(kept), afterFrac)
        fraction(neg, int, afterDot) ==
            decimals(neg, int,
                     Take(afterDot, SpanLen(afterDot, Digits)),
                     WithoutTrailingZeros(Take(afterDot, SpanLen(afterDot, Digits))),
                     Drop(afterDot, SpanLen(afterDot, Digits)))
        point(neg, int, afterInt) ==
            IF StartsWith(afterInt, <<".">>) THEN fraction(neg, int, Drop(afterInt, 1))
            ELSE mantissa(neg, int, 0, afterInt)
        integer(neg, body) ==
            point(neg, Take(body, SpanLen(body, Digits)),
                  Drop(body, SpanLen(body, Digits)))
    IN IF Len(text) > 0 /\ text[1] \in {"+", "-"}
       THEN integer(text[1] = "-", Drop(text, 1))
       ELSE integer(FALSE, text)

---------------------------------------------------------------------------
(* The sub-field parsers: atom_parser.rs and model_attributes_parser.rs *)

\* atom_parser.rs
parse_acl(input) ==
    LET element(rest, num, symbol) ==
            IF num.kind /= "Ok" THEN Panic ELSE POk(rest, <<num.val, symbol>>)
        parsed(r) ==
            IF r.kind /= "Ok" THEN PErr
            ELSE element(r.rest, parse_u8(r.out[1]), r.out[2])
    IN parsed(Run(preceded(tuple(<<tag(<<"C">>), space1, tag(<<"A", "C", "L">>), space1>>),
                           delimited(char("\""),
                                     separated_pair(decimal, space1, alpha1),
                                     char("\""))), input))

parse_label(input) ==
    Run(opt(preceded(tuple(<<tag(<<"C">>), space1, tag(<<"L", "a", "b", "e", "l">>), space1>>),
                     delimited(char("\""), alphanumeric1, char("\"")))), input)

\* Point3::from_slice takes the first three numbers and panics on fewer
parse_xyz(input) ==
    LET from_slice(rest, xyz_vec) ==
            IF \E i \in 1..Len(xyz_vec) : xyz_vec[i].kind /= "Ok" THEN Panic
            ELSE IF Len(xyz_vec) < 3 THEN Panic
            ELSE POk(rest, <<xyz_vec[1].val, xyz_vec[2].val, xyz_vec[3].val>>)
        parsed(r) ==
            IF r.kind /= "Ok" THEN PErr
            ELSE from_slice(r.rest, [i \in 1..Len(r.out) |-> parse_f64(r.out[i])])
    IN parsed(Run(preceded(tuple(<<tag(<<"D">>), space1, tag(<<"X", "Y", "Z">>), space1>>),
                           delimited(tag(<<"(">>),
                                     separated_list1(space1, alt(<<float, decimal>>)),
                                     tag(<<")">>))), input))

parse_id(input) ==
    LET number(rest, id) ==
            IF id.kind /= "Ok" THEN Panic ELSE POk(rest, id.val)
        parsed(r) ==
            IF r.kind /= "Ok" THEN PErr ELSE number(r.rest, parse_u32(r.out))
    IN parsed(Run(preceded(tuple(<<tag(<<"I">>), space1, tag(<<"I", "d">>), space1>>),
                           decimal), input))

\* model_attributes_parser.rs
\* HashMap<String, &str>: a function from the keys to the attribute texts
EmptyMap == [key \in {} |-> <<>>]

\* an insert that keeps the value a key already has
map_insert_first_wins(hashmap, key, value) ==
    [k \in DOMAIN hashmap \cup {key} |->
        IF k \in DOMAIN hashmap THEN hashmap[k] ELSE value]

\* HashMap::insert
map_insert(hashmap, key, value) ==
    [k \in DOMAIN hashmap \cup {key} |-> IF k = key THEN value ELSE hashmap[k]]

map_get(hashmap, key) ==
    IF key \in DOMAIN hashmap THEN Some(hashmap[key]) ELSE None

RECURSIVE hashmap_attrs_from(_, _)
hashmap_attrs_from(attributes, hashmap) ==
    LET inserted(r) ==
            IF r.kind /= "Ok" THEN Panic
            ELSE hashmap_attrs_from(Tail(attributes),
                                    map_insert(hashmap, r.out, r.rest))
    IN IF Len(attributes) = 0 THEN [kind |-> "Ok", val |-> hashmap]
       ELSE inserted(Run(get_attribute_type, Head(attributes)))

hashmap_attrs(attributes) == hashmap_attrs_from(attributes, EmptyMap)

parse_periodic_type(input) ==
    LET number(rest, value) ==
            IF value.kind /= "Ok" THEN Panic ELSE POk(rest, value.val)
        parsed(r) ==
            IF r.kind /= "Ok" THEN PErr ELSE number(r.rest, parse_u8(r.out))
    IN parsed(Run(preceded(tuple(<<tag(<<"I">>), space1, tag(<<"P", "e", "r", "i", "o", "d", "i", "c", "T", "y", "p", "e">>), space1>>),
                           decimal), input))

parse_space_group(input) ==
    Run(preceded(tuple(<<tag(<<"C">>), space1, tag(<<"S", "p", "a", "c", "e", "G", "r", "o", "u", "p">>), space1>>),
                 delimited(char("\""),
                           recognize(separated_pair(decimal, space1, decimal)),
                           char("\""))), input)

parse_cry_tolerance(input) ==
    LET number(rest, value) ==
            IF value.kind /= "Ok" THEN Panic ELSE POk(rest, value.val)
        parsed(r) ==
            IF r.kind /= "Ok" THEN PErr ELSE number(r.rest, parse_f64(r.out))
    IN parsed(Run(preceded(tuple(<<tag(<<"D">>), space1, tag(<<"C", "R", "Y", "/", "T", "O", "L", "E", "R", "A", "N", "C", "E">>), space1>>),
                           float), input))

parse_vector(input) ==
    LET number == alt(<<float, decimal>>)
        vector(rest, x, y, z) ==
            IF x.kind /= "Ok" \/ y.kind /= "Ok" \/ z.kind /= "Ok" THEN Panic
            ELSE POk(rest, <<x.val, y.val, z.val>>)
        parsed(r) ==
            IF r.kind /= "Ok" THEN PErr
            ELSE vector(r.rest, parse_f64(r.out[1]), parse_f64(r.out[2]),
                        parse_f64(r.out[3]))
    IN parsed(Run(preceded(tuple(<<tag(<<"D">>), space1,
                                   alt(<<tag(<<"A", "3">>), tag(<<"B", "3">>), tag(<<"C", "3">>)>>),
                                   space1>>),
                           delimited(char("("),
                                     tuple(<<terminated(number, space0),
                                             terminated(number, space0),
                                             number>>),
                                     char(")"))), input))

---------------------------------------------------------------------------
(* MsiParser<S>: state_machine/mod.rs *)

\* MsiParser::new
msi_parser_new(input) ==
    [state |-> "Loaded",
     to_parse |-> Some(input),
     model_attributes |-> <<>>,
     atoms |-> <<>>,
     bonds |-> <<>>,
     num_attr |-> 0,
     num_atom |-> 0,
     num_bond |-> 0]

\* a parser lost to a panic
Panicked == [state |-> "Panicked"]

\* MsiParser<Loaded>::starts
starts(self) ==
    LET skipped == Run(get_to_model, self.to_parse.val) IN
    IF skipped.kind /= "Ok" THEN Panicked
    ELSE LET entered == Run(enter_model, skipped.rest) IN
         IF entered.kind /= "Ok" THEN Panicked
         ELSE [state |-> "Start",
               to_parse |-> Some(entered.rest),
               model_attributes |-> self.model_attributes,
               atoms |-> self.atoms,
               bonds |-> self.bonds,
               num_attr |-> 0,
               num_atom |-> 0,
               num_bond |-> 0]

push_atom(self, atom_fields) ==
    [self EXCEPT !.atoms = Append(@, atom_fields), !.num_atom = @ + 1]

\* a push_bond that leaves the counter
push_bond_uncounted(self, bond_fields) ==
    [self EXCEPT !.bonds = Append(@, bond_fields)]

push_bond(self, bond_fields) ==
    [self EXCEPT !.bonds = Append(@, bond_fields), !.num_bond = @ + 1]

push_model_attribute(self, attribute_field) ==
    [self EXCEPT !.model_attributes = Append(@, attribute_field),
                 !.num_attr = @ + 1]

\* a pass that pushes the field and leaves to_parse as it was
analyze_field_keeps_text(self) ==
    LET field == Run(get_field, self.to_parse.val)
        object == Run(get_object_type, field.out)
    IN IF object.kind = "Ok"
       THEN IF object.out = <<"A", "t", "o", "m">>
            THEN push_atom(self, object.rest)
            ELSE push_bond(self, object.rest)
       ELSE push_model_attribute(self, field.out)

\* one pass of the `while let` of analyze, for a text get_field accepts
analyze_field(self) ==
    LET field == Run(get_field, self.to_parse.val)
        object == Run(get_object_type, field.out)
        pushed == IF object.kind = "Ok"
                  THEN IF object.out = <<"A", "t", "o", "m">>
                       THEN push_atom(self, object.rest)
                       ELSE push_bond(self, object.rest)
                  ELSE push_model_attribute(self, field.out)
    IN [pushed EXCEPT !.to_parse = Some(field.rest)]

\* analyze after its loop: model_end(..).unwrap() and the move to Analyzed
analyze_end(self) ==
    IF Run(model_end, self.to_parse.val).kind /= "Ok" THEN Panicked
    ELSE [self EXCEPT !.state = "Analyzed", !.to_parse = None]

\* MsiParser<Start>::analyze
RECURSIVE analyze(_)
analyze(self) ==
    IF Run(get_field, self.to_parse.val).kind = "Ok"
    THEN analyze(analyze_field(self))
    ELSE analyze_end(self)

\* Settings<MsiModel>: the fields an msi file sets, the rest keep their defaults
SettingsDefault ==
    [periodic_type |-> 100,
     space_group |-> <<"1", " ", "1">>,
     cry_tolerance |-> Dec(FALSE, 5, -2)]

new_msi_settings(periodic_type, space_group, cry_tolerance) ==
    [SettingsDefault EXCEPT !.periodic_type = periodic_type,
                            !.space_group = space_group,
                            !.cry_tolerance = cry_tolerance]


parse_attributes(self) ==
    LET settings(periodic_type, cry_tolerance, space_group) ==
            IF periodic_type.kind /= "Ok" THEN Panic
            ELSE IF cry_tolerance.kind /= "Ok" THEN Panic
            ELSE IF space_group.kind /= "Ok" THEN Panic
            ELSE [kind |-> "Ok",
                  val |-> new_msi_settings(periodic_type.out, space_group.out,
                                           cry_tolerance.out)]
        entries(periodic, tolerance, group) ==
            IF ~periodic.is_some \/ ~tolerance.is_some \/ ~group.is_some THEN Panic
            ELSE settings(parse_periodic_type(periodic.val),
                          parse_cry_tolerance(tolerance.val),
                          parse_space_group(group.val))
        table(attr_table) ==
            IF attr_table.kind /= "Ok" THEN Panic
            ELSE entries(map_get(attr_table.val, <<"P", "e", "r", "i", "o", "d", "i", "c", "T", "y", "p", "e">>),
                         map_get(attr_table.val, <<"C", "R", "Y", "/", "T", "O", "L", "E", "R", "A", "N", "C", "E">>),
                         map_get(attr_table.val, <<"S", "p", "a", "c", "e", "G", "r", "o", "u", "p">>))
    IN IF Len(self.model_attributes) = 0
       THEN [kind |-> "Ok", val |-> SettingsDefault]
       ELSE table(hashmap_attrs(self.model_attributes))

\* Matrix3::from_columns
from_columns(a, b, c) == [i \in 1..3 |-> <<a[i], b[i], c[i]>>]

\* the lattice read from the first three vector attributes of the bucket,
\* taken as a, b, c in the order of the text
parse_lattice_vectors_positional(self) ==
    LET columns(vectors) ==
            IF Len(vectors) < 3 THEN Panic
            ELSE [kind |-> "Ok",
                  val |-> Some(from_columns(vectors[1].out, vectors[2].out,
                                            vectors[3].out))]
        parsed(items) == SelectSeq(items, LAMBDA v : v.kind = "Ok")
    IN IF Len(self.model_attributes) = 0 THEN [kind |-> "Ok", val |-> None]
       ELSE columns(parsed([i \in 1..Len(self.model_attributes) |->
                               parse_vector(self.model_attributes[i])]))

parse_lattice_vectors(self) ==
    LET columns(vector_a, vector_b, vector_c) ==
            IF vector_a.kind /= "Ok" THEN Panic
            ELSE IF vector_b.kind /= "Ok" THEN Panic
            ELSE IF vector_c.kind /= "Ok" THEN Panic
            ELSE [kind |-> "Ok",
                  val |-> Some(from_columns(vector_a.out, vector_b.out,
                                            vector_c.out))]
        entries(a3, b3, c3) ==
            IF ~a3.is_some \/ ~b3.is_some \/ ~c3.is_some THEN Panic
            ELSE columns(parse_vector(a3.val), parse_vector(b3.val),
                         parse_vector(c3.val))
        table(attr_table) ==
            IF attr_table.kind /= "Ok" THEN Panic
            ELSE entries(map_get(attr_table.val, <<"A", "3">>),
                         map_get(attr_table.val, <<"B", "3">>),
                         map_get(attr_table.val, <<"C", "3">>))
    IN IF Len(self.model_attributes) = 0 THEN [kind |-> "Ok", val |-> None]
       ELSE table(hashmap_attrs(self.model_attributes))

\* the four columns parse_atoms fills
EmptyColumns ==
    [kind |-> "Ok",
     element_symbols |-> <<>>,
     atomic_numbers |-> <<>>,
     xyz_coords |-> <<>>,
     atom_ids |-> <<>>]

\* an item that is no species, position or id line stops the extraction
push_item_unwrap(field, cols) ==
    LET pushed(acl, xyz, id) ==
            IF acl.kind = "Panic" THEN Panic
            ELSE IF acl.kind = "Ok"
            THEN [cols EXCEPT !.atomic_numbers = Append(@, acl.out[1]),
                              !.element_symbols = Append(@, acl.out[2])]
            ELSE IF xyz.kind = "Panic" THEN Panic
            ELSE IF xyz.kind = "Ok"
            THEN [cols EXCEPT !.xyz_coords = Append(@, xyz.out)]
            ELSE IF id.kind = "Panic" THEN Panic
            ELSE IF id.kind = "Ok"
            THEN [cols EXCEPT !.atom_ids = Append(@, id.out)]
            ELSE Panic
    IN pushed(parse_acl(field), parse_xyz(field), parse_id(field))

\* the closure of the inner for_each of parse_atoms: one line of a block
push_item(field, cols) ==
    LET pushed(acl, xyz, id) ==
            IF acl.kind = "Panic" THEN Panic
            ELSE IF acl.kind = "Ok"
            THEN [cols EXCEPT !.atomic_numbers = Append(@, acl.out[1]),
                              !.element_symbols = Append(@, acl.out[2])]
            ELSE IF xyz.kind = "Panic" THEN Panic
            ELSE IF xyz.kind = "Ok"
            THEN [cols EXCEPT !.xyz_coords = Append(@, xyz.out)]
            ELSE IF id.kind = "Panic" THEN Panic
            ELSE IF id.kind = "Ok"
            THEN [cols EXCEPT !.atom_ids = Append(@, id.out)]
            ELSE cols
    IN pushed(parse_acl(field), parse_xyz(field), parse_id(field))

\* the inner for_each of parse_atoms: one attribute line of an atom block
RECURSIVE push_items(_, _)
push_items(atom_attrs, cols) ==
    IF Len(atom_attrs) = 0 \/ cols.kind /= "Ok" THEN cols
    ELSE push_items(Tail(atom_attrs), push_item(Head(atom_attrs), cols))

\* the outer for_each of parse_atoms: one atom block after the other
RECURSIVE push_blocks(_, _)
push_blocks(blocks, cols) ==
    LET block(atom_attrs) ==
            IF atom_attrs.kind /= "Ok" THEN Panic
            ELSE push_blocks(Tail(blocks), push_items(atom_attrs.out, cols))
    IN IF Len(blocks) = 0 \/ cols.kind /= "Ok" THEN cols
       ELSE block(Run(many0(take_attribute), Head(blocks)))

parse_atoms(self) ==
    LET unwrapped(r) == IF r.kind = "Ok" THEN r ELSE Panic
        table(cols) ==
            LET finished(b) ==
                    IF b.kind /= "Ok" THEN Panic ELSE build(b.val)
                fractional(b) ==
                    IF b.kind /= "Ok" THEN Panic
                    ELSE finished(unwrapped(finish(b.val)))
                coords(b) ==
                    IF b.kind /= "Ok" THEN Panic
                    ELSE fractional(unwrapped(with_fractional_xyz(
                             b.val, [i \in 1..self.num_atom |-> None])))
                nums(b) ==
                    IF b.kind /= "Ok" THEN Panic
                    ELSE coords(unwrapped(with_xyz_coords(b.val, cols.xyz_coords)))
                symbols(b) ==
                    IF b.kind /= "Ok" THEN Panic
                    ELSE nums(unwrapped(with_atomic_nums(b.val, cols.atomic_numbers)))
                ids(b) ==
                    IF b.kind /= "Ok" THEN Panic
                    ELSE symbols(unwrapped(with_element_symbols(
                             b.val, cols.element_symbols)))
            IN IF cols.kind /= "Ok" THEN Panic
               ELSE ids(unwrapped(with_atom_ids(new("Msi", self.num_atom),
                                                cols.atom_ids)))
    IN table(push_blocks(self.atoms, EmptyColumns))

\* MsiParser<Analyzed>::build_lattice_model
build_lattice_model(self) ==
    LET lattice_model(settings, lattice_vector, atom_table) ==
            IF settings.kind /= "Ok" THEN Panic
            ELSE IF lattice_vector.kind /= "Ok" THEN Panic
            ELSE IF atom_table.kind /= "Ok" THEN Panic
            ELSE [kind |-> "Ok",
                  val |-> lattice_model_new(lattice_vector.val, atom_table.val,
                                            settings.val)]
    IN lattice_model(parse_attributes(self), parse_lattice_vectors(self),
                     parse_atoms(self))

\* new, starts, analyze and build_lattice_model on one text
parse_document(input) ==
    LET built(analyzed) ==
            IF analyzed.state = "Panicked" THEN Panic
            ELSE build_lattice_model(analyzed)
        entered(started) ==
            IF started.state = "Panicked" THEN Panic ELSE built(analyze(started))
    IN entered(starts(msi_parser_new(input)))

---------------------------------------------------------------------------
(* The documents handed to the parser, and the parser one call at a time *)

\* most fields of a document drawn freely from all the fields
MaxFields == 2
\* most exchanges of two fields that lead from the canonical order of a
\* complete document to the order of the document parsed
MaxSwaps == 1

\* the lines of each field, without their line endings
FieldLines(name) ==
    CASE name = "PeriodicType" -> <<<<" ", " ", "(", "A", " ", "I", " ", "P", "e", "r", "i", "o", "d", "i", "c", "T", "y", "p", "e", " ", "1", "0", "0", ")">>>>
      [] name = "Tolerance" -> <<<<" ", " ", "(", "A", " ", "D", " ", "C", "R", "Y", "/", "T", "O", "L", "E", "R", "A", "N", "C", "E", " ", "0", ".", "0", "5", ")">>>>
      [] name = "WholeTolerance" -> <<<<" ", " ", "(", "A", " ", "D", " ", "C", "R", "Y", "/", "T", "O", "L", "E", "R", "A", "N", "C", "E", " ", "1", ".", "0", ")">>>>
      [] name = "SpaceGroup" -> <<<<" ", " ", "(", "A", " ", "C", " ", "S", "p", "a", "c", "e", "G", "r", "o", "u", "p", " ", "\"", "1", " ", "1", "\"", ")">>>>
      [] name = "A3" -> <<<<" ", " ", "(", "A", " ", "D", " ", "A", "3", " ", "(", "2", " ", "0", " ", "0", ")", ")">>>>
      [] name = "B3" -> <<<<" ", " ", "(", "A", " ", "D", " ", "B", "3", " ", "(", "0", " ", "2", ".", "5", " ", "0", ")", ")">>>>
      [] name = "C3" -> <<<<" ", " ", "(", "A", " ", "D", " ", "C", "3", " ", "(", "0", " ", "0", " ", "3", "e", "1", ")", ")">>>>
      [] name = "Atom1" -> <<<<" ", " ", "(", "2", " ", "A", "t", "o", "m">>,
                             <<" ", " ", " ", " ", "(", "A", " ", "C", " ", "A", "C", "L", " ", "\"", "6", " ", "C", "\"", ")">>,
                             <<" ", " ", " ", " ", "(", "A", " ", "C", " ", "L", "a", "b", "e", "l", " ", "\"", "C", "1", "\"", ")">>,
                             <<" ", " ", " ", " ", "(", "A", " ", "D", " ", "X", "Y", "Z", " ", "(", "1", " ", "0", " ", "0", ".", "5", ")", ")">>,
                             <<" ", " ", " ", " ", "(", "A", " ", "I", " ", "I", "d", " ", "1", ")">>,
                             <<" ", " ", ")">>>>
      [] name = "Atom2" -> <<<<" ", " ", "(", "3", " ", "A", "t", "o", "m">>,
                             <<" ", " ", " ", " ", "(", "A", " ", "I", " ", "I", "d", " ", "2", ")">>,
                             <<" ", " ", " ", " ", "(", "A", " ", "D", " ", "X", "Y", "Z", " ", "(", "-", "1", ".", "5", " ", "0", " ", "0", ")", ")">>,
                             <<" ", " ", " ", " ", "(", "A", " ", "C", " ", "A", "C", "L", " ", "\"", "1", " ", "H", "\"", ")">>,
                             <<" ", " ", ")">>>>
      [] name = "Bond" -> <<<<" ", " ", "(", "4", " ", "B", "o", "n", "d">>,
                            <<" ", " ", " ", " ", "(", "A", " ", "O", " ", "A", "t", "o", "m", "1", " ", "2", ")">>,
                            <<" ", " ", " ", " ", "(", "A", " ", "O", " ", "A", "t", "o", "m", "2", " ", "3", ")">>,
                            <<" ", " ", ")">>>>
      [] name = "Water" -> <<<<" ", " ", "(", "5", " ", "H", "2", "O">>,
                             <<" ", " ", " ", " ", "(", "A", " ", "I", " ", "I", "d", " ", "9", ")">>,
                             <<" ", " ", ")">>>>
      [] name = "Broken" -> <<<<" ", " ", "(", "B", " ", "x", ")">>>>
      [] name = "AtomNoId" -> <<<<" ", " ", "(", "6", " ", "A", "t", "o", "m">>,
                                <<" ", " ", " ", " ", "(", "A", " ", "C", " ", "A", "C", "L", " ", "\"", "8", " ", "O", "\"", ")">>,
                                <<" ", " ", " ", " ", "(", "A", " ", "D", " ", "X", "Y", "Z", " ", "(", "0", " ", "1", " ", "0", ")", ")">>,
                                <<" ", " ", ")">>>>
      [] name = "AtomTwoIds" -> <<<<" ", " ", "(", "7", " ", "A", "t", "o", "m">>,
                                  <<" ", " ", " ", " ", "(", "A", " ", "C", " ", "A", "C", "L", " ", "\"", "7", " ", "N", "\"", ")">>,
                                  <<" ", " ", " ", " ", "(", "A", " ", "D", " ", "X", "Y", "Z", " ", "(", "0", " ", "0", " ", "1", ")", ")">>,
                                  <<" ", " ", " ", " ", "(", "A", " ", "I", " ", "I", "d", " ", "1", ")">>,
                                  <<" ", " ", " ", " ", "(", "A", " ", "I", " ", "I", "d", " ", "2", ")">>,
                                  <<" ", " ", ")">>>>

AttributeFields == {"PeriodicType", "Tolerance", "SpaceGroup", "A3", "B3", "C3"}
AtomFields == {"Atom1", "Atom2"}
\* atom blocks with a line missing and with a line twice
DefectiveAtomFields == {"AtomNoId", "AtomTwoIds"}
AllFields ==
    AttributeFields \cup AtomFields \cup DefectiveAtomFields
        \cup {"Bond", "Water", "Broken"}

\* attributes, then atoms, then bonds
CanonicalOrder ==
    <<"PeriodicType", "Tolerance", "SpaceGroup", "A3", "B3", "C3",
      "Atom1", "Atom2", "Bond">>

\* what follows the last field: the scope's close, nothing, or the close
\* and more text
Endings == {"Closed", "Missing", "Trailing"}

EndingText(ending, eol) ==
    CASE ending = "Closed" -> <<")">> \o eol
      [] ending = "Missing" -> <<>>
      [] ending = "Trailing" -> <<")">> \o eol \o <<"#", " ", "e", "n", "d">>

RECURSIVE JoinLines(_, _)
JoinLines(lines, eol) ==
    IF Len(lines) = 0 THEN <<>>
    ELSE Head(lines) \o eol \o JoinLines(Tail(lines), eol)

RECURSIVE FieldsText(_, _)
FieldsText(fields, eol) ==
    IF Len(fields) = 0 THEN <<>>
    ELSE JoinLines(FieldLines(Head(fields)), eol) \o FieldsText(Tail(fields), eol)

\* the text of a document: header, scope open, fields, ending
Render(d) ==
    JoinLines(<<<<"#", " ", "M", "S", "I", " ", "C", "E", "R", "I", "U", "S", "2", " ", "D", "a", "t", "a", "M", "o", "d", "e", "l", " ", "F", "i", "l", "e", " ", "V", "e", "r", "s", "i", "o", "n", " ", "4", " ", "0">>, <<"(", "1", " ", "M", "o", "d", "e", "l">>>>, d.eol)
        \o FieldsText(d.fields, d.eol)
        \o EndingText(d.ending, d.eol)

Range(s) == {s[i] : i \in 1..Len(s)}

Swap(s, i, j) ==
    [k \in 1..Len(s) |-> IF k = i THEN s[j] ELSE IF k = j THEN s[i] ELSE s[k]]

RECURSIVE Swapped(_)
Swapped(n) ==
    IF n = 0 THEN {CanonicalOrder}
    ELSE LET fewer == Swapped(n - 1) IN
         fewer \cup {Swap(s, i, j) : s \in fewer,
                                     i \in 1..Len(CanonicalOrder),
                                     j \in 1..Len(CanonicalOrder)}

\* short documents of any fields with any ending, and complete documents in
\* a permuted order
Documents ==
    {[fields |-> f, eol |-> e, ending |-> x] :
        f \in {s \in SeqsUpTo(AllFields, MaxFields) : Distinct(s)},
        e \in {LF, CRLF},
        x \in Endings}
    \cup
    {[fields |-> f, eol |-> e, ending |-> "Closed"] :
        f \in Swapped(MaxSwaps), e \in {LF, CRLF}}

InitParser ==
    /\ \E d \in Documents :
        /\ doc = d
        /\ parser = msi_parser_new(Render(d))
    /\ model = None
    /\ bld = Idle
    /\ atoms = Idle
    /\ lm = Idle
    /\ call = [op |-> "new"]
    /\ ret = Unit

Starts ==
    /\ parser.state = "Loaded"
    /\ parser' = starts(parser)
    /\ call' = [op |-> "starts"]
    /\ ret' = IF starts(parser).state = "Panicked" THEN Panic ELSE Ok
    /\ UNCHANGED <<doc, model>>
    /\ UNCHANGED notParserVars

\* analyze, a pass of its loop
AnalyzeField ==
    /\ parser.state = "Start"
    /\ Run(get_field, parser.to_parse.val).kind = "Ok"
    /\ parser' = analyze_field(parser)
    /\ call' = [op |-> "analyze_field",
                mode |-> IF Run(take_attribute, parser.to_parse.val).kind = "Ok"
                         THEN "attribute" ELSE "object",
                field |-> Run(get_field, parser.to_parse.val).out,
                pre |-> parser]
    /\ ret' = Unit
    /\ UNCHANGED <<doc, model>>
    /\ UNCHANGED notParserVars

\* analyze, once get_field fails
AnalyzeEnd ==
    /\ parser.state = "Start"
    /\ Run(get_field, parser.to_parse.val).kind /= "Ok"
    /\ parser' = analyze_end(parser)
    /\ call' = [op |-> "analyze_end", rest |-> parser.to_parse.val]
    /\ ret' = IF analyze_end(parser).state = "Panicked" THEN Panic ELSE Ok
    /\ UNCHANGED <<doc, model>>
    /\ UNCHANGED notParserVars

BuildLatticeModel ==
    /\ parser.state = "Analyzed"
    /\ ~model.is_some
    /\ ret' = build_lattice_model(parser)
    /\ model' = Some(ret')
    /\ call' = [op |-> "build_lattice_model"]
    /\ UNCHANGED <<parser, doc>>
    /\ UNCHANGED notParserVars

NextParser ==
    \/ Starts
    \/ AnalyzeField
    \/ AnalyzeEnd
    \/ BuildLatticeModel

SpecParser == InitParser /\ [][NextParser]_vars

---------------------------------------------------------------------------
(* Claims about the parser *)

\* the first line of a field's content, and what follows that line
FirstLineEnd(content) ==
    LET n == FindFirst(content, LF) IN IF n < 0 THEN Len(content) ELSE n

TagOf(content) ==
    LET line == Take(content, FirstLineEnd(content)) IN
    IF Len(line) > 0 /\ line[Len(line)] = "\r" THEN Take(line, Len(line) - 1)
    ELSE line

BodyOf(content) == Drop(content, FirstLineEnd(content) + 1)

\* C8: each pass of analyze puts the field into exactly one bucket: a field
\* taken as an attribute goes to the attribute bucket; a field taken as an
\* object goes to the atom bucket, with the atom counter raised, when its
\* tag (its first line) is "Atom", and to the bond bucket, with the bond
\* counter raised, for any other tag, whatever its characters; the other
\* buckets and counters stay as they were.
Claim_C8 ==
    call.op = "analyze_field" =>
        IF call.mode = "attribute"
        THEN /\ parser.model_attributes = Append(call.pre.model_attributes, call.field)
             /\ parser.atoms = call.pre.atoms
             /\ parser.bonds = call.pre.bonds
             /\ parser.num_atom = call.pre.num_atom
             /\ parser.num_bond = call.pre.num_bond
        ELSE IF TagOf(call.field) = <<"A", "t", "o", "m">>
        THEN /\ parser.atoms = Append(call.pre.atoms, BodyOf(call.field))
             /\ parser.num_atom = call.pre.num_atom + 1
             /\ parser.model_attributes = call.pre.model_attributes
             /\ parser.bonds = call.pre.bonds
             /\ parser.num_bond = call.pre.num_bond
        ELSE /\ parser.bonds = Append(call.pre.bonds, BodyOf(call.field))
             /\ parser.num_bond = call.pre.num_bond + 1
             /\ parser.model_attributes = call.pre.model_attributes
             /\ parser.atoms = call.pre.atoms
             /\ parser.num_atom = call.pre.num_atom

WellFormedFields == AttributeFields \cup AtomFields \cup {"Bond"}

\* a model scope of well-formed fields, each at most once, properly closed
WellFormed(d) == Range(d.fields) \subseteq WellFormedFields /\ d.ending = "Closed"

CanonicalOf(d) ==
    [d EXCEPT !.fields = SelectSeq(CanonicalOrder, LAMBDA f : f \in Range(d.fields))]

AtomOrder(d) == SelectSeq(d.fields, LAMBDA f : f \in AtomFields)

AtomRows(table) ==
    {<<table.element_symbols[i], table.atomic_nums[i], table.xyz_coords[i],
       table.atom_ids[i]>> : i \in 1..table.size}

\* the same settings, the same lattice vectors and the same atoms
SameModel(a, b) ==
    IF a.kind /= "Ok" \/ b.kind /= "Ok" THEN a.kind = b.kind
    ELSE /\ a.val.model_type = b.val.model_type
         /\ a.val.lattice_vectors = b.val.lattice_vectors
         /\ a.val.atoms.size = b.val.atoms.size
         /\ AtomRows(a.val.atoms) = AtomRows(b.val.atoms)

\* C9: the model built from a well-formed document whose fields are in any
\* order has the settings, the lattice vectors and the atoms (symbol, atomic
\* number, position, id) of the model built from the same fields in the
\* canonical order, and is that very model when the atoms keep their
\* relative order; where a document's parse fails, so does the canonical one.
Thm_C9 ==
    /\ (call.op = "build_lattice_model" /\ WellFormed(doc)) =>
          LET canonical == parse_document(Render(CanonicalOf(doc))) IN
          /\ SameModel(ret, canonical)
          /\ AtomOrder(doc) = AtomOrder(CanonicalOf(doc)) => ret = canonical
    /\ (parser.state = "Panicked" /\ WellFormed(doc)) =>
          parse_document(Render(CanonicalOf(doc))).kind = "Panic"

\* a complete document with B3 ahead of A3 has been parsed to a model with
\* settings, a lattice and two atoms
Wit_C9 ==
    /\ call.op = "build_lattice_model"
    /\ WellFormed(doc)
    /\ Len(doc.fields) = Len(CanonicalOrder)
    /\ \E i, j \in 1..Len(doc.fields) :
          i < j /\ doc.fields[i] = "B3" /\ doc.fields[j] = "A3"
    /\ ret.kind = "Ok"
    /\ ret.val.lattice_vectors.is_some
    /\ ret.val.atoms.atom_ids = <<1, 2>>

\* the texts that are the close of a model scope and nothing more
Terminators == {<<")">>, <<")", "\n">>, <<")", "\r", "\n">>}

StructuralError(rest) == [kind |-> "StructuralError", rest |-> rest]

\* C10: when no field can be extracted any more, analyze ends in Analyzed
\* only if the text left is exactly the close of the model scope; for any
\* other text left it fails with a structural error value that carries that
\* text, and there is no Analyzed parser.
Claim_C10 ==
    call.op = "analyze_end" =>
        IF call.rest \in Terminators
        THEN parser.state = "Analyzed"
        ELSE parser.state /= "Analyzed" /\ ret = StructuralError(call.rest)

---------------------------------------------------------------------------
(* Claims about the atom blocks *)

\* the attribute lines of an atom block, as parse_atoms takes them
ItemsOf(block) ==
    LET attrs(r) == IF r.kind = "Ok" THEN r.out ELSE <<>>
    IN attrs(Run(many0(take_attribute), block))

SpeciesOf(block) ==
    {parse_acl(item).out : item \in {i \in Range(ItemsOf(block)) : parse_acl(i).kind = "Ok"}}

PositionsOf(block) ==
    {parse_xyz(item).out : item \in {i \in Range(ItemsOf(block)) : parse_xyz(i).kind = "Ok"}}

IdentifiersOf(block) ==
    {parse_id(item).out : item \in {i \in Range(ItemsOf(block)) : parse_id(i).kind = "Ok"}}

\* a block without its species line, its coordinate line or its id line
Lacking(block) ==
    SpeciesOf(block) = {} \/ PositionsOf(block) = {} \/ IdentifiersOf(block) = {}

\* C11: when a block of the atom bucket lacks its species line, its
\* coordinate line or its id line, building the model fails (an error or
\* an abort, in any case no model is returned), whatever surplus lines other blocks
\* carry; and in a model that is returned, the symbol, atomic number,
\* position and id of row i are those of the i-th block.
Claim_C11 ==
    call.op = "build_lattice_model" =>
        /\ (\E i \in 1..Len(parser.atoms) : Lacking(parser.atoms[i])) =>
               ret.kind /= "Ok"
        /\ ret.kind = "Ok" =>
               /\ ret.val.atoms.size = Len(parser.atoms)
               /\ \A i \in 1..Len(parser.atoms) :
                     /\ <<ret.val.atoms.atomic_nums[i],
                          ret.val.atoms.element_symbols[i]>>
                            \in SpeciesOf(parser.atoms[i])
                     /\ ret.val.atoms.xyz_coords[i] \in PositionsOf(parser.atoms[i])
                     /\ ret.val.atoms.atom_ids[i] \in IdentifiersOf(parser.atoms[i])

---------------------------------------------------------------------------
(* The attribute bucket of an Analyzed parser, and what is read from it *)

MaxBucket == 3

\* contents of attribute fields, as take_attribute hands them to the bucket:
\* the settings, the lattice vectors, a second A3 and a content without a name
AttributeTexts ==
    {<<"I", " ", "P", "e", "r", "i", "o", "d", "i", "c", "T", "y", "p", "e", " ", "1", "0", "0">>,
     <<"D", " ", "C", "R", "Y", "/", "T", "O", "L", "E", "R", "A", "N", "C", "E", " ", "0", ".", "0", "5">>,
     <<"C", " ", "S", "p", "a", "c", "e", "G", "r", "o", "u", "p", " ", "\"", "1", " ", "1", "\"">>,
     <<"D", " ", "A", "3", " ", "(", "2", " ", "0", " ", "0", ")">>,
     <<"D", " ", "B", "3", " ", "(", "0", " ", "2", ".", "5", " ", "0", ")">>,
     <<"D", " ", "C", "3", " ", "(", "0", " ", "0", " ", "3", "e", "1", ")">>,
     <<"D", " ", "A", "3", " ", "(", "4", " ", "0", " ", "0", ")">>,
     <<"5", " ", "x">>}

Buckets == SeqsUpTo(AttributeTexts, MaxBucket)

\* a parser after analyze with the given attribute bucket
analyzed_with(bucket) ==
    [msi_parser_new(<<>>) EXCEPT !.state = "Analyzed",
                                 !.to_parse = None,
                                 !.model_attributes = bucket,
                                 !.num_attr = Len(bucket)]

InitBucket ==
    /\ \E bucket \in Buckets : parser = analyzed_with(bucket)
    /\ doc = Idle
    /\ model = None
    /\ bld = Idle
    /\ atoms = Idle
    /\ lm = Idle
    /\ call = [op |-> "new"]
    /\ ret = Unit

HashmapAttrs ==
    /\ call.op = "new"
    /\ call' = [op |-> "hashmap_attrs"]
    /\ ret' = hashmap_attrs(parser.model_attributes)
    /\ UNCHANGED <<parser, doc, model>>
    /\ UNCHANGED notParserVars

ParseLatticeVectors ==
    /\ call.op = "new"
    /\ call' = [op |-> "parse_lattice_vectors"]
    /\ ret' = parse_lattice_vectors(parser)
    /\ UNCHANGED <<parser, doc, model>>
    /\ UNCHANGED notParserVars

NextBucket ==
    \/ HashmapAttrs
    \/ ParseLatticeVectors

SpecBucket == InitBucket /\ [][NextBucket]_vars

---------------------------------------------------------------------------
(* Claims about the attribute table *)

Named(attribute) == Run(get_attribute_type, attribute).kind = "Ok"

\* the attribute-name token of an attribute
AttributeName(attribute) == Run(get_attribute_type, attribute).out

NamesIn(bucket) == {AttributeName(bucket[i]) : i \in 1..Len(bucket)}

\* the last attribute of the bucket with the given name
LastNamed(bucket, name) ==
    bucket[CHOOSE i \in 1..Len(bucket) :
              /\ AttributeName(bucket[i]) = name
              /\ \A j \in (i + 1)..Len(bucket) : AttributeName(bucket[j]) /= name]

\* C12: the table built from the attribute bucket has as keys the names
\* that occur in the bucket, and maps each name to the content of the last
\* attribute of the bucket with that name.
Thm_C12 ==
    (call.op = "hashmap_attrs" /\ ret.kind = "Ok") =>
        /\ DOMAIN ret.val = NamesIn(parser.model_attributes)
        /\ \A name \in DOMAIN ret.val :
              ret.val[name] = LastNamed(parser.model_attributes, name)

\* a table has been built from a bucket with two different A3 attributes,
\* and holds the later one
Wit_C12 ==
    /\ call.op = "hashmap_attrs"
    /\ ret.kind = "Ok"
    /\ \E i, j \in 1..Len(parser.model_attributes) :
          /\ i < j
          /\ parser.model_attributes[i] = <<"D", " ", "A", "3", " ", "(", "2", " ", "0", " ", "0", ")">>
          /\ parser.model_attributes[j] = <<"D", " ", "A", "3", " ", "(", "4", " ", "0", " ", "0", ")">>
          /\ ret.val[<<"A", "3">>] = parser.model_attributes[j]

VectorKeys == {<<"A", "3">>, <<"B", "3">>, <<"C", "3">>}

\* C13: from a bucket whose table has the keys A3, B3 and C3 the lattice
\* with these vectors as columns is returned; from a bucket whose table has
\* none of the three keys no lattice is returned, and the call does not fail,
\* also when the bucket holds other attributes.
Claim_C13 ==
    (/\ call.op = "parse_lattice_vectors"
     /\ \A i \in 1..Len(parser.model_attributes) : Named(parser.model_attributes[i])) =>
        /\ VectorKeys \subseteq NamesIn(parser.model_attributes) =>
              ret = [kind |-> "Ok",
                     val |-> Some(from_columns(
                         parse_vector(LastNamed(parser.model_attributes, <<"A", "3">>)).out,
                         parse_vector(LastNamed(parser.model_attributes, <<"B", "3">>)).out,
                         parse_vector(LastNamed(parser.model_attributes, <<"C", "3">>)).out))]
        /\ VectorKeys \cap NamesIn(parser.model_attributes) = {} =>
              ret = [kind |-> "Ok", val |-> None]

---------------------------------------------------------------------------
(* The scanners on free text: decimal, float and take_attribute *)

MaxText == 5

\* the characters a literal is written with
LiteralChars == {"5", ".", "e", "-", "+"}

LiteralTexts == SeqsUpTo(LiteralChars, MaxText)

\* lines of a model scope without their line ending: attribute fields with
\* and without indentation, a field of another kind, an attribute field
\* that is not closed and a line that opens no field
ScopeLines ==
    {<<"(", "A", " ", "I", " ", "I", "d", " ", "1", ")">>, <<" ", " ", "(", "A", " ", "D", " ", "X", "Y", "Z", " ", "(", "1", " ", "0", " ", "0", ")", ")">>, <<"(", "B", " ", "x", ")">>, <<"(", "A", " ", "C", " ", "L", "a", "b", "e", "l">>, <<"A", " ", "x", ")">>}

\* one or two lines, each with either line ending or, the last, with none
ScopeTexts ==
    {first \o e1 \o second \o e2 :
        first \in ScopeLines, e1 \in {LF, CRLF},
        second \in ScopeLines \cup {<<>>}, e2 \in {<<>>, LF, CRLF}}

InitScanner ==
    /\ \/ \E text \in LiteralTexts : doc = [of |-> "literal", text |-> text]
       \/ \E text \in ScopeTexts : doc = [of |-> "scope", text |-> text]
    /\ parser = Idle
    /\ model = None
    /\ bld = Idle
    /\ atoms = Idle
    /\ lm = Idle
    /\ call = [op |-> "new"]
    /\ ret = Unit

\* float(input)
Float ==
    /\ call.op = "new"
    /\ doc.of = "literal"
    /\ call' = [op |-> "float"]
    /\ ret' = Run(float, doc.text)
    /\ UNCHANGED <<parser, doc, model>>
    /\ UNCHANGED notParserVars

\* alt((float, decimal))(input), the number of parse_xyz and parse_vector
Number ==
    /\ call.op = "new"
    /\ doc.of = "literal"
    /\ call' = [op |-> "number"]
    /\ ret' = Run(alt(<<float, decimal>>), doc.text)
    /\ UNCHANGED <<parser, doc, model>>
    /\ UNCHANGED notParserVars

\* take_attribute(input)
TakeAttribute ==
    /\ call.op = "new"
    /\ doc.of = "scope"
    /\ call' = [op |-> "take_attribute"]
    /\ ret' = Run(take_attribute, doc.text)
    /\ UNCHANGED <<parser, doc, model>>
    /\ UNCHANGED notParserVars

NextScanner ==
    \/ Float
    \/ Number
    \/ TakeAttribute

SpecScanner == InitScanner /\ [][NextScanner]_vars

---------------------------------------------------------------------------
(* Claims about the scanners *)

\* an unsigned decimal integer, or a floating-point literal: an optional
\* sign, then digits with a point and optional digits after it, or a point
\* and digits, each with an optional exponent, or digits with an exponent;
\* the exponent has its own optional sign
Exponent == tuple(<<one_of({"e", "E"}), opt(one_of({"+", "-"})), decimal>>)

LiteralGrammar ==
    alt(<<tuple(<<opt(one_of({"+", "-"})),
                  alt(<<tuple(<<decimal, char("."), opt(decimal), opt(Exponent)>>),
                        tuple(<<char("."), decimal, opt(Exponent)>>),
                        tuple(<<decimal, Exponent>>)>>)>>),
          decimal>>)

WellFormedLiteral(text) == Run(recognize(LiteralGrammar), text) = POk(<<>>, text)

LiteralPrefixes(text) == {n \in 1..Len(text) : WellFormedLiteral(Take(text, n))}

Longest(lengths) == CHOOSE n \in lengths : \A m \in lengths : m <= n

\* C14: the number scanner returns the longest prefix of the text that is a
\* well-formed literal, with the rest of the text, and fails when no prefix
\* is one; what float alone matches is a well-formed literal, followed by
\* the rest of the text.
Claim_C14 ==
    /\ call.op = "number" =>
          IF LiteralPrefixes(doc.text) = {} THEN ret = PErr
          ELSE ret = POk(Drop(doc.text, Longest(LiteralPrefixes(doc.text))),
                         Take(doc.text, Longest(LiteralPrefixes(doc.text))))
    /\ (call.op = "float" /\ ret.kind = "Ok") =>
          /\ WellFormedLiteral(ret.out)
          /\ ret.out \o ret.rest = doc.text

\* where the text opens an attribute field: after the indentation
Indentation(text) == SpanLen(text, Blanks)

OpensAttribute(text) == StartsWith(Drop(text, Indentation(text)), <<"(", "A", " ">>)

AttributeBody(text) == Drop(text, Indentation(text) + 3)

\* the first close-paren followed by a line ending: its position in the
\* body and its length, or none
FirstTerminator(body) ==
    LET ends == {t \in {<<")", "\n">>, <<")", "\r", "\n">>} : FindFirst(body, t) >= 0}
    IN IF ends = {} THEN None
       ELSE LET t == CHOOSE t \in ends : \A u \in ends : FindFirst(body, t) <= FindFirst(body, u)
            IN Some([at |-> FindFirst(body, t), len |-> Len(t)])

\* C15: on a text that opens an attribute field, take_attribute returns
\* the content up to the first close-paren followed by a line ending,
\* either \n or \r\n, and the text after that line ending; on a text that
\* opens none it fails.
Claim_C15 ==
    call.op = "take_attribute" =>
        IF OpensAttribute(doc.text)
        THEN LET end == FirstTerminator(AttributeBody(doc.text)) IN
             end.is_some =>
                ret = POk(Drop(AttributeBody(doc.text), end.val.at + end.val.len),
                          Take(AttributeBody(doc.text), end.val.at))
        ELSE ret = PErr

---------------------------------------------------------------------------
(* lattice/mod.rs, model_type/cell.rs, model_type/msi.rs: the geometry of  *)
(* the dialect conversions.  The lattice vectors of the models below lie   *)
(* along the axes and no two of them point in opposite directions, so      *)
(* every length, cosine and sine is an integer and the arithmetic is       *)
(* exact.  An angle is counted in quarter turns.  A division by zero gives *)
(* NaN (an infinity is not told apart from NaN); a fractional coordinate   *)
(* is a reduced fraction <<n, d>>.                                         *)

Abs(x) == IF x < 0 THEN -x ELSE x

RECURSIVE Gcd(_, _)
Gcd(x, y) == IF y = 0 THEN x ELSE Gcd(y, x % y)

\* x / y as a fraction in lowest terms with a positive denominator
Quot(x, y) ==
    IF x = NaN \/ y = NaN \/ y = 0 THEN <<NaN, 1>>
    ELSE LET g == Gcd(Abs(x), Abs(y))
         IN IF y < 0 THEN <<(-x) \div g, (-y) \div g>> ELSE <<x \div g, y \div g>>

\* x / y where the quotient is an integer
Fdiv(x, y) == IF x = NaN \/ y = NaN \/ y = 0 THEN NaN ELSE x \div y

HasNaN(v) == \E k \in 1..3 : v[k] = NaN

MatHasNaN(m) == \E i \in 1..3 : HasNaN(m[i])

NaNMatrix == [i \in 1..3 |-> [j \in 1..3 |-> NaN]]

\* Matrix3::column, counted from 1
Column(m, j) == <<m[1][j], m[2][j], m[3][j]>>

\* Vector3::norm of a vector along an axis
norm(v) == IF HasNaN(v) THEN NaN ELSE Abs(v[1]) + Abs(v[2]) + Abs(v[3])

dot(u, v) == Fadd(Fadd(Fmul(u[1], v[1]), Fmul(u[2], v[2])), Fmul(u[3], v[3]))

cross(u, v) ==
    <<Fsub(Fmul(u[2], v[3]), Fmul(u[3], v[2])),
      Fsub(Fmul(u[3], v[1]), Fmul(u[1], v[3])),
      Fsub(Fmul(u[1], v[2]), Fmul(u[2], v[1]))>>

\* Vector3::normalize divides by the norm without looking at it
normalize(v) == [k \in 1..3 |-> Fdiv(v[k], norm(v))]

\* Vector3::angle: zero when one of the vectors has no length, else the
\* arc cosine of dot / (norm * norm); 0, 1 or 2 quarter turns
angle(u, v) ==
    IF HasNaN(u) \/ HasNaN(v) THEN NaN
    ELSE IF norm(u) = 0 \/ norm(v) = 0 THEN 0
    ELSE 1 - (dot(u, v) \div (norm(u) * norm(v)))

cos(q) == IF q = NaN THEN NaN ELSE 1 - q

sin(q) == IF q = NaN THEN NaN ELSE IF q = 1 THEN 1 ELSE 0

\* UnitQuaternion::new(axis * angle), as the rotation matrix of the
\* quaternion: cos I + sin [axis]x + (1 - cos) axis axis^T
UnitQuaternion_new(axis, q) ==
    IF HasNaN(axis) \/ q = NaN THEN NaNMatrix
    ELSE LET K == <<<<0, -axis[3], axis[2]>>,
                    <<axis[3], 0, -axis[1]>>,
                    <<-axis[2], axis[1], 0>>>>
         IN [i \in 1..3 |-> [j \in 1..3 |->
                (IF i = j THEN cos(q) ELSE 0) + sin(q) * K[i][j]
                    + (1 - cos(q)) * axis[i] * axis[j]]]

Det3(m) ==
    m[1][1] * (m[2][2] * m[3][3] - m[2][3] * m[3][2])
    - m[1][2] * (m[2][1] * m[3][3] - m[2][3] * m[3][1])
    + m[1][3] * (m[2][1] * m[3][2] - m[2][2] * m[3][1])

\* the transposed matrix of cofactors
Adj3(m) ==
    <<<<m[2][2] * m[3][3] - m[2][3] * m[3][2],
        m[1][3] * m[3][2] - m[1][2] * m[3][3],
        m[1][2] * m[2][3] - m[1][3] * m[2][2]>>,
      <<m[2][3] * m[3][1] - m[2][1] * m[3][3],
        m[1][1] * m[3][3] - m[1][3] * m[3][1],
        m[1][3] * m[2][1] - m[1][1] * m[2][3]>>,
      <<m[2][1] * m[3][2] - m[2][2] * m[3][1],
        m[1][2] * m[3][1] - m[1][1] * m[3][2],
        m[1][1] * m[2][2] - m[1][2] * m[2][1]>>>>

\* Matrix3::try_inverse: None when the determinant is zero; a NaN
\* determinant is not zero and the inverse is NaN throughout.  The inverse
\* is kept as the adjugate num over the determinant den.
try_inverse(m) ==
    IF MatHasNaN(m) THEN Some([num |-> NaNMatrix, den |-> 1])
    ELSE IF Det3(m) = 0 THEN None
    ELSE Some([num |-> Adj3(m), den |-> Det3(m)])

\* Matrix3<f64> * Point3<f64> for an inverse matrix
InverseTimes(inv, p) == [k \in 1..3 |-> Quot(MatVec(inv.num, p)[k], inv.den)]

\* LatticeVectors::fractional_coord_matrix, with the unwrap at its end
fractional_coord_matrix(self) ==
    LET to_cart(len_a, len_b, len_c, alpha, beta, gamma, vol) ==
            <<<<len_a, Fmul(len_b, cos(gamma)), Fmul(len_c, cos(beta))>>,
              <<0, Fmul(len_b, sin(gamma)),
                Fdiv(Fmul(len_c, Fsub(cos(alpha), Fmul(cos(beta), cos(gamma)))),
                     sin(gamma))>>,
              <<0, 0, Fdiv(vol, Fmul(Fmul(len_a, len_b), sin(gamma)))>>>>
        unwrapped(inverse) ==
            IF inverse.is_some THEN [kind |-> "Ok", val |-> inverse.val] ELSE Panic
        of(vec_a, vec_b, vec_c) ==
            unwrapped(try_inverse(to_cart(norm(vec_a), norm(vec_b), norm(vec_c),
                                          angle(vec_b, vec_c), angle(vec_a, vec_c),
                                          angle(vec_a, vec_b),
                                          dot(vec_a, cross(vec_b, vec_c)))))
    IN of(Column(self, 1), Column(self, 2), Column(self, 3))

\* the place of row i in the order of <[T]>::sort_by_key, a stable sort
Rank(keys, i) ==
    1 + Cardinality({j \in 1..Len(keys) :
                        keys[j] < keys[i] \/ (keys[j] = keys[i] /\ j < i)})

\* cell_atoms.sort_by_key(|a| a.element_id())
sort_by_element_id(atom_vec) ==
    [r \in 1..Len(atom_vec) |->
        atom_vec[CHOOSE i \in 1..Len(atom_vec) :
                    Rank([j \in 1..Len(atom_vec) |-> atom_vec[j].atomic_number], i) = r]]

\* msi_atom_array.sort_by_key(|a| a.atom_id())
sort_by_atom_id(atom_vec) ==
    [r \in 1..Len(atom_vec) |->
        atom_vec[CHOOSE i \in 1..Len(atom_vec) : Rank(IdsOf(atom_vec), i) = r]]

\* From<T: AsRef + AsMut> for LatticeModel<CellModel>: the new model (or the
\* panic of an unwrap) and the source as the conversion leaves it
cell_from_msi_model(msi_model) ==
    LET x_axis == <<1, 0, 0>>
        new_atom(atom, matrix) ==
            Atom(atom.element_symbol, atom.atomic_number, atom.xyz,
                 Some(InverseTimes(matrix, atom.xyz)), atom.atom_id)
        cell_atoms(rotated, matrix) ==
            [i \in 1..Len(rotated.atoms) |-> new_atom(rotated.atoms[i], matrix)]
        built(rotated, matrix) ==
            IF matrix.kind /= "Ok" THEN [kind |-> "Panic", source |-> rotated]
            ELSE [kind |-> "Ok",
                  val |-> lattice_model_new(
                              Some(rotated.lattice_vectors.val),
                              sort_by_element_id(cell_atoms(rotated, matrix.val)),
                              "Cell"),
                  source |-> rotated]
        from(rotated) ==
            built(rotated, fractional_coord_matrix(rotated.lattice_vectors.val))
        rot_quatd(a_vec) ==
            UnitQuaternion_new(normalize(cross(a_vec, x_axis)), angle(a_vec, x_axis))
    IN IF ~msi_model.lattice_vectors.is_some
       THEN [kind |-> "Panic", source |-> msi_model]
       ELSE from(lattice_model_rotate(
                     msi_model, rot_quatd(Column(msi_model.lattice_vectors.val, 1))))

\* From<T: AsRef> for LatticeModel<MsiModel>; the atoms of the model are the
\* rows of its collection
msi_from_cell_model(cell_model) ==
    LET y_axis == <<0, 1, 0>>
        rot_quatd(b_vec) ==
            UnitQuaternion_new(normalize(cross(b_vec, y_axis)), angle(b_vec, y_axis))
        turned(msi_model, b_vec) ==
            IF angle(b_vec, y_axis) /= 0
            THEN lattice_model_rotate(msi_model, rot_quatd(b_vec))
            ELSE msi_model
        sorted(msi_atom_array) ==
            IF msi_atom_array.kind /= "Ok" THEN Panic
            ELSE [kind |-> "Ok",
                  val |-> turned(
                      lattice_model_new(
                          Some(cell_model.lattice_vectors.val),
                          into_vec_atoms(from_vec_atoms(
                              "Msi", sort_by_atom_id(msi_atom_array.val))).val,
                          "Msi"),
                      Column(cell_model.lattice_vectors.val, 2))]
        arrayed(msi_atoms) ==
            IF msi_atoms.kind /= "Ok" THEN Panic
            ELSE sorted(into_vec_atoms(msi_atoms.val))
    IN IF ~cell_model.lattice_vectors.is_some THEN Panic
       ELSE arrayed(msi_from_cell(from_vec_atoms("Cell", cell_model.atoms)))

---------------------------------------------------------------------------
(* A caller holds a model in lm, converts it to the other dialect or       *)
(* rotates it; the converted model is in model.  A source passed by value  *)
(* is moved and lm is None afterwards.                                     *)

MaxCell == 2
MaxRows == 2

\* the zero vector and the vectors of length 2..MaxCell along x, y and z
AxisVectors ==
    {<<0, 0, 0>>} \cup
    UNION {{<<k, 0, 0>>, <<0, k, 0>>, <<0, 0, k>>} : k \in 2..MaxCell}

LatticeInputs ==
    {None} \cup {Some(from_columns(a, b, c)) : a, b, c \in AxisVectors}

\* Atom::new leaves fractional_xyz None
RowInputs ==
    {Atom("C", 6, <<1, 1, 1>>, None, 1),
     Atom("H", 1, <<1, 0, 0>>, None, 2),
     Atom("C", 6, <<0, 1, 0>>, None, 3)}

MsiSources ==
    {lattice_model_new(l, atom_vec, "Msi") :
        l \in LatticeInputs, atom_vec \in SeqsUpTo(RowInputs, MaxRows)}

\* the CELL models are the conversions of the MSI models
CellSources ==
    {cell_from_msi_model(m).val :
        m \in {s \in MsiSources : cell_from_msi_model(s).kind = "Ok"}}

InitConvert ==
    /\ bld = Idle
    /\ atoms = Idle
    /\ parser = Idle
    /\ doc = Idle
    /\ lm \in {Some(m) : m \in MsiSources \cup CellSources}
    /\ model = None
    /\ call = [op |-> "new"]
    /\ ret = Unit

convertFrame == <<bld, atoms, parser, doc>>

\* LatticeModel::<CellModel>::from(msi_model) and from(&mut msi_model)
MsiToCell ==
    /\ lm.is_some
    /\ lm.val.model_type = "Msi"
    /\ \E pass \in {"value", "mut_ref"} :
        /\ call' = [op |-> "cell_from_msi_model", pass |-> pass, source |-> lm.val]
        /\ ret' = cell_from_msi_model(lm.val)
        /\ lm' = IF pass = "value" THEN None ELSE Some(ret'.source)
        /\ model' = IF ret'.kind = "Ok" THEN Some(ret'.val) ELSE None
    /\ UNCHANGED convertFrame

\* LatticeModel::<MsiModel>::from(cell_model), from(&cell_model) and
\* from(&mut cell_model)
CellToMsi ==
    /\ lm.is_some
    /\ lm.val.model_type = "Cell"
    /\ \E pass \in {"value", "ref", "mut_ref"} :
        /\ call' = [op |-> "msi_from_cell_model", pass |-> pass, source |-> lm.val]
        /\ ret' = msi_from_cell_model(lm.val)
        /\ lm' = IF pass = "value" THEN None ELSE lm
        /\ model' = IF ret'.kind = "Ok" THEN Some(ret'.val) ELSE None
    /\ UNCHANGED convertFrame

\* LatticeVectors::fractional_coord_matrix of the caller's model
FractionalCoordMatrix ==
    /\ lm.is_some
    /\ lm.val.lattice_vectors.is_some
    /\ call' = [op |-> "fractional_coord_matrix", source |-> lm.val]
    /\ ret' = fractional_coord_matrix(lm.val.lattice_vectors.val)
    /\ UNCHANGED <<lm, model, convertFrame>>

\* Transformation::rotate of the caller's model
RotateModel ==
    /\ lm.is_some
    /\ \E rotate_quatd \in Rotations :
        /\ call' = [op |-> "rotate", source |-> lm.val]
        /\ lm' = Some(lattice_model_rotate(lm.val, rotate_quatd))
    /\ ret' = Unit
    /\ UNCHANGED <<model, convertFrame>>

\* test_cell_msi: the CELL model a conversion returned is converted back
ConvertBack ==
    /\ call.op = "cell_from_msi_model"
    /\ model.is_some
    /\ call' = [op |-> "msi_back", source |-> model.val, msi_model |-> call.source]
    /\ ret' = msi_from_cell_model(model.val)
    /\ model' = IF ret'.kind = "Ok" THEN Some(ret'.val) ELSE None
    /\ UNCHANGED <<lm, convertFrame>>

NextConvert ==
    \/ MsiToCell
    \/ CellToMsi
    \/ ConvertBack
    \/ FractionalCoordMatrix
    \/ RotateModel

SpecConvert == InitConvert /\ [][NextConvert]_vars

---------------------------------------------------------------------------
(* Claims about the geometry of the conversions *)

\* a basis of zero volume: a vector of no length, or two vectors on one line
Degenerate(vectors) == ~MatHasNaN(vectors) /\ Det3(vectors) = 0

\* a model some coordinate of which is NaN
AtomHasNaN(atom) ==
    \/ HasNaN(atom.xyz)
    \/ /\ atom.fractional_xyz.is_some
       /\ \E k \in 1..3 : atom.fractional_xyz.val[k][1] = NaN

ModelHasNaN(m) ==
    \/ \E i \in 1..Len(m.atoms) : AtomHasNaN(m.atoms[i])
    \/ m.lattice_vectors.is_some /\ MatHasNaN(m.lattice_vectors.val)

\* C16: for a degenerate lattice basis (zero volume, collinear or zero-length
\* vectors) the fractional-coordinate matrix computation and the conversion
\* that uses it do not panic, return no matrix with NaN entries and return no
\* model with NaN coordinates.
Claim_C16 ==
    /\ call.op \in {"fractional_coord_matrix", "cell_from_msi_model"}
    /\ call.source.lattice_vectors.is_some
    /\ Degenerate(call.source.lattice_vectors.val)
    => /\ ret.kind /= "Panic"
       /\ call.op = "fractional_coord_matrix" => ~MatHasNaN(ret.val.num)
       /\ call.op = "cell_from_msi_model" => ~ModelHasNaN(ret.val)

PositionsIn(atom_vec) == [i \in 1..Len(atom_vec) |-> atom_vec[i].xyz]

\* lattice vector a has a length and points along the x-axis
AlongX(m) ==
    /\ m.lattice_vectors.is_some
    /\ ~MatHasNaN(m.lattice_vectors.val)
    /\ norm(Column(m.lattice_vectors.val, 1)) > 0
    /\ angle(Column(m.lattice_vectors.val, 1), <<1, 0, 0>>) = 0

\* the cubic lattice with one atom at its centre
Cubic ==
    lattice_model_new(
        Some(from_columns(<<2, 0, 0>>, <<0, 2, 0>>, <<0, 0, 2>>)),
        <<Atom("C", 6, <<1, 1, 1>>, None, 1)>>, "Msi")

\* C17: when lattice vector a already lies along the x-axis, MSI to CELL
\* conversion returns a model with the lattice vectors and the cartesian
\* positions of the source, and the cubic lattice with one atom at its centre
\* converts to the fractional coordinate (1/2, 1/2, 1/2).
Claim_C17 ==
    /\ call.op = "cell_from_msi_model"
    /\ AlongX(call.source)
    /\ ret.kind = "Ok"
    => /\ ret.val.lattice_vectors = call.source.lattice_vectors
       /\ PositionsIn(ret.val.atoms)
              = PositionsIn(sort_by_element_id(call.source.atoms))
       /\ call.source = Cubic =>
              ret.val.atoms[1].fractional_xyz = Some(<<<<1, 2>>, <<1, 2>>, <<1, 2>>>>)

\* every atom of the model carries the fractional coordinate that the
\* fractional-coordinate matrix of the model's lattice gives its position
Recomputed(m) ==
    LET agree(matrix) ==
            /\ matrix.kind = "Ok"
            /\ \A i \in 1..Len(m.atoms) :
                   m.atoms[i].fractional_xyz
                       = Some(InverseTimes(matrix.val, m.atoms[i].xyz))
    IN /\ m.lattice_vectors.is_some
       /\ agree(fractional_coord_matrix(m.lattice_vectors.val))

\* C18: after a rotation of a model that has a lattice and whose fractional
\* coordinates were those of its positions, and in the model returned by a
\* conversion in either direction, every atom's fractional coordinate is the
\* fractional-coordinate matrix of the current lattice applied to the atom's
\* current position.
Claim_C18 ==
    /\ (call.op = "rotate" /\ Recomputed(call.source) /\ ~ModelHasNaN(call.source))
           => Recomputed(lm.val)
    /\ (/\ call.op \in {"cell_from_msi_model", "msi_from_cell_model"}
        /\ ret.kind = "Ok"
        /\ ~ModelHasNaN(call.source)
        /\ (call.op = "msi_from_cell_model" => Recomputed(call.source)))
           => Recomputed(ret.val)

Orders(n) == {p \in [1..n -> 1..n] : \A i, j \in 1..n : i /= j => p[i] /= p[j]}

\* a quarter turn about an axis, or no turn
QuarterTurns ==
    {Identity3} \cup
    {UnitQuaternion_new(axis, 1) :
        axis \in {<<1, 0, 0>>, <<-1, 0, 0>>, <<0, 1, 0>>,
                  <<0, -1, 0>>, <<0, 0, 1>>, <<0, 0, -1>>}}

\* the rows of result are the rows of source in some order, each with its
\* symbol, atomic number and id and with its position turned by rot
RowsOf(result, source, rot) ==
    /\ Len(result) = Len(source)
    /\ \E p \in Orders(Len(source)) : \A i \in 1..Len(source) :
           /\ result[i].element_symbol = source[p[i]].element_symbol
           /\ result[i].atomic_number = source[p[i]].atomic_number
           /\ result[i].atom_id = source[p[i]].atom_id
           /\ result[i].xyz = MatVec(rot, source[p[i]].xyz)

Ascending(keys) == \A i, j \in 1..Len(keys) : i < j => keys[i] <= keys[j]

AtomicNumsOf(atom_vec) == [i \in 1..Len(atom_vec) |-> atom_vec[i].atomic_number]

\* the order of the target dialect, and the rows of the source with their
\* symbols, atomic numbers and ids, whatever became of the positions
OrderApplied ==
    /\ (call.op = "cell_from_msi_model" /\ ret.kind = "Ok") =>
           /\ Ascending(AtomicNumsOf(ret.val.atoms))
           /\ \E rot \in QuarterTurns \cup {NaNMatrix} :
                  RowsOf(ret.val.atoms, call.source.atoms, rot)
    /\ (call.op = "msi_from_cell_model" /\ ret.kind = "Ok") =>
           /\ Ascending(IdsOf(ret.val.atoms))
           /\ \E rot \in QuarterTurns \cup {NaNMatrix} :
                  RowsOf(ret.val.atoms, call.source.atoms, rot)

\* C19: the atoms of a model produced by MSI to CELL conversion are in
\* non-decreasing atomic-number order and those of a model produced by CELL to
\* MSI conversion in ascending atom-id order; in both cases the rows of the
\* result are a permutation of the rows of the source, each row keeping its
\* own symbol, atomic number and id, and its position too, turned at most by
\* the rotation that lays a along x (b along y).
Claim_C19 ==
    /\ (/\ call.op = "cell_from_msi_model"
        /\ ret.kind = "Ok"
        /\ ~ModelHasNaN(call.source)) =>
           /\ Ascending(AtomicNumsOf(ret.val.atoms))
           /\ \E rot \in QuarterTurns :
                  RowsOf(ret.val.atoms, call.source.atoms, rot)
    /\ (/\ call.op = "msi_from_cell_model"
        /\ ret.kind = "Ok"
        /\ ~ModelHasNaN(call.source)) =>
           /\ Ascending(IdsOf(ret.val.atoms))
           /\ \E rot \in QuarterTurns :
                  RowsOf(ret.val.atoms, call.source.atoms, rot)

\* C20: after a conversion in either direction the model the caller still
\* holds (a source passed by reference; a source passed by value is gone) has
\* the lattice vectors, the atom positions and the atom order it had before.
Claim_C20 ==
    /\ call.op \in {"cell_from_msi_model", "msi_from_cell_model"}
    /\ lm.is_some
    /\ ~ModelHasNaN(call.source)
    => /\ lm.val.lattice_vectors = call.source.lattice_vectors
       /\ PositionsIn(lm.val.atoms) = PositionsIn(call.source.atoms)
       /\ IdsOf(lm.val.atoms) = IdsOf(call.source.atoms)

\* the atoms of a model as a bag of (id, symbol, atomic number)
AtomsOf(atom_vec) ==
    [t \in {<<atom_vec[i].atom_id, atom_vec[i].element_symbol,
               atom_vec[i].atomic_number>> : i \in 1..Len(atom_vec)} |->
        Cardinality({i \in 1..Len(atom_vec) :
            <<atom_vec[i].atom_id, atom_vec[i].element_symbol,
              atom_vec[i].atomic_number>> = t})]

\* the model a round trip returned has the atoms of the MSI model it started
\* from, in ascending atom-id order
SameAtomsById ==
    (call.op = "msi_back" /\ ret.kind = "Ok") =>
        /\ Len(ret.val.atoms) = Len(call.msi_model.atoms)
        /\ AtomsOf(ret.val.atoms) = AtomsOf(call.msi_model.atoms)
        /\ Ascending(IdsOf(ret.val.atoms))

\* C22: for every MSI model with a lattice, converting it to CELL succeeds,
\* converting the result back to MSI succeeds, and the model returned has the
\* atom count and the atoms (each id with its symbol and atomic number) of the
\* MSI model, in ascending atom-id order.
Claim_C22 ==
    /\ (/\ call.op = "cell_from_msi_model"
        /\ call.source.lattice_vectors.is_some) => ret.kind = "Ok"
    /\ call.op = "msi_back" =>
           /\ ret.kind = "Ok"
           /\ Len(ret.val.atoms) = Len(call.msi_model.atoms)
           /\ AtomsOf(ret.val.atoms) = AtomsOf(call.msi_model.atoms)
           /\ Ascending(IdsOf(ret.val.atoms))

\* the lattice vector a conversion lays along its target axis: a for MSI to
\* CELL, b for CELL to MSI
VectorLaid(op, m) ==
    Column(m.lattice_vectors.val, IF op = "cell_from_msi_model" THEN 1 ELSE 2)

TargetAxis(op) == IF op = "cell_from_msi_model" THEN <<1, 0, 0>> ELSE <<0, 1, 0>>

\* C29: when the lattice vector a conversion lays along its target axis is
\* parallel or anti-parallel to that axis (it has a length and its cross
\* product with the axis is zero), no NaN enters the lattice vectors or the
\* atom positions of the model returned.
Claim_C29 ==
    /\ call.op \in {"cell_from_msi_model", "msi_from_cell_model"}
    /\ call.source.lattice_vectors.is_some
    /\ ~ModelHasNaN(call.source)
    /\ norm(VectorLaid(call.op, call.source)) > 0
    /\ cross(VectorLaid(call.op, call.source), TargetAxis(call.op)) = <<0, 0, 0>>
    /\ ret.kind = "Ok"
    => /\ ~MatHasNaN(ret.val.lattice_vectors.val)
       /\ \A i \in 1..Len(ret.val.atoms) : ~HasNaN(ret.val.atoms[i].xyz)

---------------------------------------------------------------------------
(* model_type/msi.rs: the MSI export, and a document parsed, exported and  *)
(* parsed again                                                            *)

RECURSIVE NatText(_)
\* the decimal digits of a natural number
NatText(n) ==
    IF n < 10 THEN <<DigitChars[n + 1]>>
    ELSE NatText(n \div 10) \o <<DigitChars[(n % 10) + 1]>>

Zeros(k) == [i \in 1..k |-> "0"]

RECURSIVE Pow10(_)
Pow10(k) == IF k = 0 THEN 1 ELSE 10 * Pow10(k - 1)

\* the number with the decimals beyond the 12th rounded away
Rounded12(x) ==
    IF x.e >= -12 THEN x
    ELSE IF -12 - x.e > 9 THEN Dec(x.neg, 0, 0)
    ELSE Dec(x.neg,
             (x.m \div Pow10(-12 - x.e))
                 + (IF 2 * (x.m % Pow10(-12 - x.e)) >= Pow10(-12 - x.e) THEN 1 ELSE 0),
             -12)

\* format!("{:.12}", x): sign, integer digits, point, twelve decimals
format_fixed12(x) ==
    LET sign(v) == IF v.neg THEN <<"-">> ELSE <<>>
        split(digits, k) ==
            Take(digits, Len(digits) - k) \o <<".">>
                \o Drop(digits, Len(digits) - k) \o Zeros(12 - k)
        padded(digits, k) ==
            IF Len(digits) > k THEN split(digits, k)
            ELSE split(Zeros(k + 1 - Len(digits)) \o digits, k)
        body(v) ==
            IF v.e >= 0 THEN NatText(v.m) \o Zeros(v.e) \o <<".">> \o Zeros(12)
            ELSE padded(NatText(v.m), -v.e)
        text(v) == sign(v) \o body(v)
    IN text(Rounded12(x))

\* format!("{}", x) for an f64: the shortest decimal that reads back as x,
\* never with an exponent, and without a point when x is a whole number
format_display(x) ==
    LET sign == IF x.neg THEN <<"-">> ELSE <<>>
        split(digits, k) ==
            Take(digits, Len(digits) - k) \o <<".">> \o Drop(digits, Len(digits) - k)
        padded(digits, k) ==
            IF Len(digits) > k THEN split(digits, k)
            ELSE split(Zeros(k + 1 - Len(digits)) \o digits, k)
    IN sign \o (IF x.e >= 0 THEN NatText(x.m) \o Zeros(x.e)
                ELSE padded(NatText(x.m), -x.e))

\* Display for AtomView<MsiModel>
atom_view_display(view) ==
    <<" ", " ", "(">> \o NatText(view.atom_id + 1) \o <<" ", "A", "t", "o", "m", "\n">>
    \o <<" ", " ", " ", " ", "(", "A", " ", "C", " ", "A", "C", "L", " ", "\"">> \o NatText(view.atomic_number) \o <<" ">>
        \o view.element_symbol \o <<"\"", ")", "\n">>
    \o <<" ", " ", " ", " ", "(", "A", " ", "C", " ", "L", "a", "b", "e", "l", " ", "\"">> \o view.element_symbol \o <<"\"", ")", "\n">>
    \o <<" ", " ", " ", " ", "(", "A", " ", "D", " ", "X", "Y", "Z", " ", "(">> \o format_fixed12(view.xyz[1]) \o <<" ">>
        \o format_fixed12(view.xyz[2]) \o <<" ">>
        \o format_fixed12(view.xyz[3]) \o <<")", ")", "\n">>
    \o <<" ", " ", " ", " ", "(", "A", " ", "I", " ", "I", "d", " ">> \o NatText(view.atom_id) \o <<")", "\n">>
    \o <<" ", " ", ")", "\n">>

RECURSIVE atom_strings_concat(_, _)
\* Display for AtomCollection<MsiModel>: view_atom_at(i).unwrap() for i in
\* 0..size, formatted and concatenated
atom_strings_concat(self, i) ==
    LET rest(view, tail) ==
            IF view.kind /= "Ok" \/ tail.kind /= "Ok" THEN Panic
            ELSE [kind |-> "Ok", val |-> atom_view_display(view.val) \o tail.val]
    IN IF i >= self.size THEN [kind |-> "Ok", val |-> <<>>]
       ELSE rest(view_atom_at(self, i), atom_strings_concat(self, i + 1))

\* Display for LatticeVectors<MsiModel>
lattice_vectors_display(vectors) ==
    <<" ", " ", "(", "A", " ", "D", " ", "A", "3", " ", "(">> \o format_fixed12(vectors[1][1]) \o <<" ">>
        \o format_fixed12(vectors[2][1]) \o <<" ">>
        \o format_fixed12(vectors[3][1]) \o <<")", ")", "\n">>
    \o <<" ", " ", "(", "A", " ", "D", " ", "B", "3", " ", "(">> \o format_fixed12(vectors[1][2]) \o <<" ">>
        \o format_fixed12(vectors[2][2]) \o <<" ">>
        \o format_fixed12(vectors[3][2]) \o <<")", ")", "\n">>
    \o <<" ", " ", "(", "A", " ", "D", " ", "C", "3", " ", "(">> \o format_fixed12(vectors[1][3]) \o <<" ">>
        \o format_fixed12(vectors[2][3]) \o <<" ">>
        \o format_fixed12(vectors[3][3]) \o <<")", ")">> \o <<"\n">>

\* LatticeModel<MsiModel>::msi_export; the settings of the model are its
\* third field
msi_export(self) ==
    LET settings == self.model_type
        closed(head, atom_text) ==
            IF atom_text.kind /= "Ok" THEN Panic
            ELSE [kind |-> "Ok", val |-> head \o atom_text.val \o <<")">>]
    IN IF self.lattice_vectors.is_some
       THEN closed(<<"#", " ", "M", "S", "I", " ", "C", "E", "R", "I", "U", "S", "2", " ", "D", "a", "t", "a", "M", "o", "d", "e", "l", " ", "F", "i", "l", "e", " ", "V", "e", "r", "s", "i", "o", "n", " ", "4", " ", "0", "\n">>
                   \o <<"(", "1", " ", "M", "o", "d", "e", "l", "\n">>
                   \o <<" ", " ", "(", "A", " ", "I", " ", "C", "R", "Y", "/", "D", "I", "S", "P", "L", "A", "Y", " ", "(", "1", "9", "2", " ", "2", "5", "6", ")", ")", "\n">>
                   \o <<" ", " ", "(", "A", " ", "I", " ", "P", "e", "r", "i", "o", "d", "i", "c", "T", "y", "p", "e", " ">> \o NatText(settings.periodic_type) \o <<")", "\n">>
                   \o <<" ", " ", "(", "A", " ", "C", " ", "S", "p", "a", "c", "e", "G", "r", "o", "u", "p", " ", "\"">> \o settings.space_group \o <<"\"", ")", "\n">>
                   \o lattice_vectors_display(self.lattice_vectors.val)
                   \o <<" ", " ", "(", "A", " ", "D", " ", "C", "R", "Y", "/", "T", "O", "L", "E", "R", "A", "N", "C", "E", " ">>
                       \o format_display(settings.cry_tolerance) \o <<")", "\n">>,
                   atom_strings_concat(self.atoms, 0))
       ELSE closed(<<"#", " ", "M", "S", "I", " ", "C", "E", "R", "I", "U", "S", "2", " ", "D", "a", "t", "a", "M", "o", "d", "e", "l", " ", "F", "i", "l", "e", " ", "V", "e", "r", "s", "i", "o", "n", " ", "4", " ", "0", "\n", "(", "1", " ", "M", "o", "d", "e", "l", "\n">>,
                   atom_strings_concat(self.atoms, 0))

\* the document with a tolerance that is a whole number
WithWholeTolerance(d) ==
    [d EXCEPT !.fields = [i \in 1..Len(d.fields) |->
        IF d.fields[i] = "Tolerance" THEN "WholeTolerance" ELSE d.fields[i]]]

\* the well-formed documents, each also with the other tolerance
RoundTripDocuments ==
    {d \in Documents : WellFormed(d)}
        \cup {WithWholeTolerance(d) : d \in {w \in Documents : WellFormed(w)}}

InitRoundTrip ==
    /\ doc \in RoundTripDocuments
    /\ parser = Idle
    /\ model = None
    /\ bld = Idle
    /\ atoms = Idle
    /\ lm = Idle
    /\ call = [op |-> "new"]
    /\ ret = Unit

\* MsiParser::new(..).starts().analyze().build_lattice_model() on the file
ParseFile ==
    /\ call.op = "new"
    /\ ret' = parse_document(Render(doc))
    /\ model' = IF ret'.kind = "Ok" THEN Some(ret'.val) ELSE None
    /\ call' = [op |-> "parse"]
    /\ UNCHANGED <<doc, parser>>
    /\ UNCHANGED notParserVars

\* msi_export of the model parsed last
MsiExport ==
    /\ call.op \in {"parse", "parse_export"}
    /\ model.is_some
    /\ ret' = msi_export(model.val)
    /\ call' = [op |-> "msi_export", source |-> model.val]
    /\ UNCHANGED <<doc, parser, model>>
    /\ UNCHANGED notParserVars

\* the exported text, parsed as the file was
ParseExport ==
    /\ call.op = "msi_export"
    /\ ret.kind = "Ok"
    /\ ret' = parse_document(ret.val)
    /\ model' = IF ret'.kind = "Ok" THEN Some(ret'.val) ELSE None
    /\ call' = [op |-> "parse_export", source |-> call.source, text |-> ret.val]
    /\ UNCHANGED <<doc, parser>>
    /\ UNCHANGED notParserVars

NextRoundTrip ==
    \/ ParseFile
    \/ MsiExport
    \/ ParseExport

SpecRoundTrip == InitRoundTrip /\ [][NextRoundTrip]_vars

---------------------------------------------------------------------------
(* Claims about the export *)

\* each id of the table with its position to twelve decimals
PlacedIds(table) ==
    {<<table.atom_ids[i], [k \in 1..3 |-> Rounded12(table.xyz_coords[i][k])]>> :
        i \in 1..table.size}

\* C21: the text exported from the model of a well-formed document parses
\* again, to a model with the same atom count, the same set of atom ids and
\* the same position, to twelve decimals, for each id.
Claim_C21 ==
    call.op = "parse_export" =>
        /\ ret.kind = "Ok"
        /\ ret.val.atoms.size = call.source.atoms.size
        /\ PlacedIds(ret.val.atoms) = PlacedIds(call.source.atoms)

---------------------------------------------------------------------------
(* Transformations of a lattice model *)

\* the rows of after are the rows of before with their symbols, atomic
\* numbers and ids
RowsKept(before, after) ==
    /\ Len(after.atoms) = Len(before.atoms)
    /\ \A i \in 1..Len(before.atoms) :
           /\ after.atoms[i].element_symbol = before.atoms[i].element_symbol
           /\ after.atoms[i].atomic_number = before.atoms[i].atomic_number
           /\ after.atoms[i].atom_id = before.atoms[i].atom_id

\* the lattice vectors and every position of after are those of before
\* turned by rot
TurnedBy(before, after, rot) ==
    /\ after.lattice_vectors =
           IF before.lattice_vectors.is_some
           THEN Some(MatMul(rot, before.lattice_vectors.val))
           ELSE None
    /\ \A i \in 1..Len(before.atoms) :
           after.atoms[i].xyz = MatVec(rot, before.atoms[i].xyz)

\* C23: a translation of a model or of its lattice leaves the lattice vectors
\* as they were; a rotation of a model turns every atom position and the
\* lattice vectors by the same rotation; neither changes the atom count, the
\* symbols, the atomic numbers or the ids.
Thm_C23 ==
    [][/\ call'.op \in {"lattice_model_translate", "lattice_vectors_translate"} =>
              /\ lm'.val.lattice_vectors = lm.val.lattice_vectors
              /\ RowsKept(lm.val, lm'.val)
       /\ call'.op = "lattice_model_rotate" =>
              /\ \E rot \in Rotations : TurnedBy(lm.val, lm'.val, rot)
              /\ RowsKept(lm.val, lm'.val)]_vars

\* a model with a lattice and two atoms off the origin has been rotated
Wit_C23 ==
    /\ call.op = "lattice_model_rotate"
    /\ lm.val.lattice_vectors.is_some
    /\ Len(lm.val.atoms) >= 2
    /\ \E i \in 1..Len(lm.val.atoms) : lm.val.atoms[i].xyz /= <<0, 0, 0>>

---------------------------------------------------------------------------
(* Atom blocks with and without a Label line *)

\* the species, position and id lines of the two atoms
AtomLines(n) ==
    IF n = 1
    THEN <<<<" ", " ", " ", " ", "(", "A", " ", "C", " ", "A", "C", "L", " ", "\"", "6", " ", "C", "\"", ")">>, <<" ", " ", " ", " ", "(", "A", " ", "D", " ", "X", "Y", "Z", " ", "(", "1", " ", "0", " ", "0", ".", "5", ")", ")">>, <<" ", " ", " ", " ", "(", "A", " ", "I", " ", "I", "d", " ", "1", ")">>>>
    ELSE <<<<" ", " ", " ", " ", "(", "A", " ", "C", " ", "A", "C", "L", " ", "\"", "1", " ", "H", "\"", ")">>, <<" ", " ", " ", " ", "(", "A", " ", "D", " ", "X", "Y", "Z", " ", "(", "-", "1", ".", "5", " ", "0", " ", "0", ")", ")">>, <<" ", " ", " ", " ", "(", "A", " ", "I", " ", "I", "d", " ", "2", ")">>>>

LabelLine(text) == <<" ", " ", " ", " ", "(", "A", " ", "C", " ", "L", "a", "b", "e", "l", " ", "\"">> \o text \o <<"\"", ")">>

LabelTexts == {<<"C", "1">>, <<"A", "g">>}

\* a block: the order of its three lines and, when it has one, the Label line
\* and the number of lines before it
Blocks ==
    {[order |-> p, label |-> l] :
        p \in Orders(3),
        l \in {None} \cup {Some([at |-> k, text |-> t]) : k \in 0..3, t \in LabelTexts}}

BlockLines(b, n) ==
    LET lines == [i \in 1..3 |-> AtomLines(n)[b.order[i]]] IN
    <<IF n = 1 THEN <<" ", " ", "(", "2", " ", "A", "t", "o", "m">> ELSE <<" ", " ", "(", "3", " ", "A", "t", "o", "m">>>>
        \o (IF b.label.is_some
            THEN SubSeq(lines, 1, b.label.val.at)
                     \o <<LabelLine(b.label.val.text)>>
                     \o SubSeq(lines, b.label.val.at + 1, 3)
            ELSE lines)
        \o <<<<" ", " ", ")">>>>

RenderBlocks(d) ==
    JoinLines(<<<<"#", " ", "M", "S", "I", " ", "C", "E", "R", "I", "U", "S", "2", " ", "D", "a", "t", "a", "M", "o", "d", "e", "l", " ", "F", "i", "l", "e", " ", "V", "e", "r", "s", "i", "o", "n", " ", "4", " ", "0">>, <<"(", "1", " ", "M", "o", "d", "e", "l">>>>, d.eol)
        \o JoinLines(BlockLines(d.blocks[1], 1), d.eol)
        \o (IF Len(d.blocks) = 2 THEN JoinLines(BlockLines(d.blocks[2], 2), d.eol)
            ELSE <<>>)
        \o <<")">> \o d.eol

WithoutLabels(d) ==
    [d EXCEPT !.blocks = [i \in 1..Len(d.blocks) |-> [d.blocks[i] EXCEPT !.label = None]]]

\* any first block, alone or followed by a second block in one order
LabelDocuments ==
    {[blocks |-> <<b>>, eol |-> e] : b \in Blocks, e \in {LF, CRLF}}
    \cup
    {[blocks |-> <<b, c>>, eol |-> LF] :
        b \in Blocks,
        c \in {x \in Blocks : x.order = <<3, 2, 1>>
                              /\ (x.label.is_some => x.label.val.text = <<"A", "g">>
                                                     /\ x.label.val.at \in {0, 3})}}

InitLabel ==
    /\ doc \in LabelDocuments
    /\ parser = Idle
    /\ model = None
    /\ bld = Idle
    /\ atoms = Idle
    /\ lm = Idle
    /\ call = [op |-> "new"]
    /\ ret = Unit

\* the text is parsed; the same text without its Label lines is parsed too
ParseLabelled ==
    /\ call.op = "new"
    /\ call' = [op |-> "parse_labelled",
                plain |-> parse_document(RenderBlocks(WithoutLabels(doc)))]
    /\ ret' = parse_document(RenderBlocks(doc))
    /\ model' = IF ret'.kind = "Ok" THEN Some(ret'.val) ELSE None
    /\ UNCHANGED <<doc, parser, bld, atoms, lm>>

SpecLabel == InitLabel /\ [][ParseLabelled]_vars

\* C24: the model extracted from atom blocks with a Label line at any
\* position among their lines is the model extracted from the same blocks
\* without the Label lines, and row i of every column of the table is the
\* species, position and id of block i.
Thm_C24 ==
    call.op = "parse_labelled" =>
        /\ ret.kind = "Ok"
        /\ ret = call.plain
        /\ ret.val.atoms.size = Len(doc.blocks)
        /\ Len(ret.val.atoms.xyz_coords) = Len(doc.blocks)
        /\ ret.val.atoms.atom_ids = [i \in 1..Len(doc.blocks) |-> i]
        /\ ret.val.atoms.atomic_nums = SubSeq(<<6, 1>>, 1, Len(doc.blocks))
        /\ ret.val.atoms.element_symbols = SubSeq(<<<<"C">>, <<"H">>>>, 1, Len(doc.blocks))
        /\ ret.val.atoms.xyz_coords[1][3] = Dec(FALSE, 5, -1)

\* two blocks were parsed, the first with its Label line before the species
\* line and the second with its Label line last
Wit_C24 ==
    /\ call.op = "parse_labelled"
    /\ ret.kind = "Ok"
    /\ Len(doc.blocks) = 2
    /\ doc.blocks[1].label.is_some
    /\ doc.blocks[1].label.val.at = 0
    /\ doc.blocks[2].label.is_some
    /\ doc.blocks[2].label.val.at = 3

---------------------------------------------------------------------------
(* One update of a table *)

\* the tables updated: every AtomCollection made from at most MaxAtoms atoms
InitUpdate ==
    /\ \E T \in Formats : \E src \in SeqsUpTo(AtomInputs, MaxAtoms) :
           atoms = Some(from_vec_atoms(T, src))
    /\ bld = None
    /\ lm = Idle
    /\ parser = Idle
    /\ doc = Idle
    /\ model = Idle
    /\ call = [op |-> "new"]
    /\ ret = Unit

\* an update method with its index and value, on the table as it was
Updated(name, index, value, r) ==
    /\ call.op = "new"
    /\ atoms' = Some(r.self)
    /\ call' = [op |-> name, index |-> index, value |-> value, self |-> atoms.val]
    /\ ret' = r.ret
    /\ UNCHANGED <<bld, notAtomVars>>

SymbolUpdated ==
    \E index \in Indices, new_symbol \in Symbols :
        Updated("update_symbol_at", index, new_symbol,
                update_symbol_at(atoms.val, index, new_symbol))

ElmIdUpdated ==
    \E index \in Indices, new_elm_id \in AtomicNums :
        Updated("update_elm_id_at", index, new_elm_id,
                update_elm_id_at(atoms.val, index, new_elm_id))

XyzUpdated ==
    \E index \in Indices, new_xyz \in Points :
        Updated("update_xyz_at", index, new_xyz,
                update_xyz_at(atoms.val, index, new_xyz))

FracXyzUpdated ==
    \E index \in Indices, new_frac \in Fracs :
        Updated("update_frac_xyz_at", index, new_frac,
                update_frac_xyz_at(atoms.val, index, new_frac))

AtomIdUpdated ==
    \E index \in Indices, new_atom_id \in Ids :
        Updated("update_atom_id_at", index, new_atom_id,
                update_atom_id_at(atoms.val, index, new_atom_id))

AtomUpdated ==
    \E index \in Indices, new_atom \in AtomInputs :
        Updated("update_atom_at", index, new_atom,
                update_atom_at(atoms.val, index, new_atom))

NextUpdate ==
    \/ SymbolUpdated
    \/ ElmIdUpdated
    \/ XyzUpdated
    \/ FracXyzUpdated
    \/ AtomIdUpdated
    \/ AtomUpdated

SpecUpdate == InitUpdate /\ [][NextUpdate]_vars

ColumnNames ==
    {"element_symbols", "atomic_nums", "xyz_coords", "fractional_xyz", "atom_ids"}

\* the column an update method writes, and the field of an atom that
\* update_atom_at writes into it
ColumnWritten(name) ==
    CASE name = "update_symbol_at" -> "element_symbols"
      [] name = "update_elm_id_at" -> "atomic_nums"
      [] name = "update_xyz_at" -> "xyz_coords"
      [] name = "update_frac_xyz_at" -> "fractional_xyz"
      [] name = "update_atom_id_at" -> "atom_ids"

FieldOf(column) ==
    CASE column = "element_symbols" -> "element_symbol"
      [] column = "atomic_nums" -> "atomic_number"
      [] column = "xyz_coords" -> "xyz"
      [] column = "fractional_xyz" -> "fractional_xyz"
      [] column = "atom_ids" -> "atom_id"

\* after is before but for row index of the columns written
OnlyWritten(before, after, written, index) ==
    /\ after.size = before.size
    /\ after.format_type = before.format_type
    /\ \A c \in ColumnNames :
           /\ Len(after[c]) = Len(before[c])
           /\ \A row \in 1..Len(before[c]) :
                  (c \notin written \/ row /= index + 1) => after[c][row] = before[c][row]

\* C25: an update_X_at with an index below the size returns Ok, writes its
\* value into row index of column X and changes no other cell; update_atom_at
\* with an index below the size returns Ok and writes the five values of the
\* atom into row index; every update with an index at or above the size
\* returns InvalidIndex and leaves the table as it was.
Thm_C25 ==
    call.op /= "new" =>
        IF call.index >= call.self.size
        THEN ret = InvalidIndex /\ atoms.val = call.self
        ELSE /\ ret = Ok
             /\ IF call.op = "update_atom_at"
                THEN /\ OnlyWritten(call.self, atoms.val, ColumnNames, call.index)
                     /\ \A c \in ColumnNames :
                            atoms.val[c][call.index + 1] = call.value[FieldOf(c)]
                ELSE /\ OnlyWritten(call.self, atoms.val, {ColumnWritten(call.op)}, call.index)
                     /\ atoms.val[ColumnWritten(call.op)][call.index + 1] = call.value

\* update_atom_at replaced the second row of a table of two rows by an atom
\* that differs from it in every value
Wit_C25 ==
    /\ call.op = "update_atom_at"
    /\ call.index = 1
    /\ call.self.size = 2
    /\ ret = Ok
    /\ \A c \in ColumnNames : atoms.val[c][2] /= call.self[c][2]

---------------------------------------------------------------------------
(* The counters and the buckets of the parser *)

EndsWith(s, t) == Len(s) >= Len(t) /\ SubSeq(s, Len(s) - Len(t) + 1, Len(s)) = t

\* t is a part of s
Within(t, s) ==
    \E k \in 0..(Len(s) - Len(t)) : SubSeq(s, k + 1, k + Len(t)) = t

CountersMatch(p) ==
    /\ p.num_atom = Len(p.atoms)
    /\ p.num_bond = Len(p.bonds)
    /\ p.num_attr = Len(p.model_attributes)

Extracted(p) == p.num_atom + p.num_bond + p.num_attr

\* after has one entry more than before, at the end of one bucket, and the
\* entry is the field or the end of the field
OnePushed(before, after, field) ==
    \E entry \in {Drop(field, k) : k \in 0..Len(field)} :
        \/ /\ after.atoms = Append(before.atoms, entry)
           /\ after.bonds = before.bonds
           /\ after.model_attributes = before.model_attributes
        \/ /\ after.atoms = before.atoms
           /\ after.bonds = Append(before.bonds, entry)
           /\ after.model_attributes = before.model_attributes
        \/ /\ after.atoms = before.atoms
           /\ after.bonds = before.bonds
           /\ after.model_attributes = Append(before.model_attributes, entry)

\* C26: whenever the parser is in Start or Analyzed its counters are the
\* lengths of its buckets; starts leaves the buckets empty, every pass of the
\* loop of analyze takes a field from the front of the remaining text and puts
\* it at the end of one bucket, so that the counters add up to the number of fields taken and
\* every bucket is in text order, and the end of analyze keeps the buckets.
Thm_C26 ==
    /\ [](parser.state \in {"Start", "Analyzed"} => CountersMatch(parser))
    /\ [][/\ (parser.state = "Loaded" /\ parser'.state = "Start") =>
                 Extracted(parser') = 0
          /\ (parser.state = "Start" /\ parser'.state = "Start") =>
                 /\ Extracted(parser') = Extracted(parser) + 1
                 /\ EndsWith(parser.to_parse.val, parser'.to_parse.val)
                 /\ Within(call'.field,
                           Take(parser.to_parse.val,
                                Len(parser.to_parse.val) - Len(parser'.to_parse.val)))
                 /\ OnePushed(parser, parser', call'.field)
          /\ (parser.state = "Start" /\ parser'.state = "Analyzed") =>
                 /\ parser'.atoms = parser.atoms
                 /\ parser'.bonds = parser.bonds
                 /\ parser'.model_attributes = parser.model_attributes]_vars

\* a complete document has been analyzed: two atoms, a bond and attributes
Wit_C26 ==
    /\ parser.state = "Analyzed"
    /\ parser.num_atom = 2
    /\ parser.num_bond = 1
    /\ parser.num_attr >= 3

---------------------------------------------------------------------------
(* Termination of analyze *)

\* a step of the parser can be taken: ENABLED <<NextParser>>_vars
Going ==
    \/ parser.state \in {"Loaded", "Start"}
    \/ parser.state = "Analyzed" /\ ~model.is_some

\* new, starts, analyze and build_lattice_model run one after the other in
\* the calling thread, so a step that can be taken is taken: weak fairness
\* WF_vars(NextParser), written with the enabling condition of NextParser
SpecAnalyze ==
    InitParser /\ [][NextParser]_vars
        /\ ([]<>(~Going) \/ []<><<NextParser>>_vars)

\* C27: every pass of the loop of analyze leaves a remaining text that is
\* strictly shorter than before, the passes made and the characters left never
\* exceed the characters of the text, and the parser reaches Analyzed, with
\* to_parse discarded, or fails.
Thm_C27 ==
    /\ [][(parser.state = "Start" /\ parser'.state = "Start") =>
              Len(parser'.to_parse.val) < Len(parser.to_parse.val)]_vars
    /\ [](parser.state = "Start" =>
              Extracted(parser) + Len(parser.to_parse.val) <= Len(Render(doc)))
    /\ [](parser.state = "Analyzed" => ~parser.to_parse.is_some)
    /\ <>(parser.state \in {"Analyzed", "Panicked"})

\* analyze has ended after a pass for each of the nine fields of a complete
\* document
Wit_C27 ==
    /\ call.op = "analyze_end"
    /\ parser.state = "Analyzed"
    /\ ~parser.to_parse.is_some
    /\ Extracted(parser) = Len(CanonicalOrder)

---------------------------------------------------------------------------
(* CastepParamBuilder *)

\* the values handed to with_spin_total and with_cut_off_energy
SpinTotals == {0, 1, 2}
CutOffEnergies == {0, 340, 380}

\* CastepParamBuilder::<T, S, C, E>::new(): the caller's type names E
param_builder_new(E) ==
    [spin_total |-> 0,
     cut_off_energy |-> 0,
     metals_method |-> None,
     spin_set |-> "No",
     cut_off_set |-> "No",
     electronic_minimizer_set |-> E]

with_spin_total(self, spin_total) ==
    [self EXCEPT !.spin_total = spin_total,
                 !.metals_method = None,
                 !.spin_set = "Yes"]

with_cut_off_energy(self, cut_off_energy) ==
    [self EXCEPT !.cut_off_energy = cut_off_energy,
                 !.metals_method = None,
                 !.cut_off_set = "Yes"]

set_to_edft(self) ==
    [self EXCEPT !.metals_method = Some("EDFT"),
                 !.electronic_minimizer_set = "Yes"]

set_to_dm(self) ==
    [self EXCEPT !.metals_method = Some("DensityMixing"),
                 !.electronic_minimizer_set = "Yes"]

\* CastepParamBuilder<T, Yes, Yes, Yes>::build
param_build(self) ==
    IF ~self.metals_method.is_some THEN Panic
    ELSE [kind |-> "Ok",
          val |-> [spin |-> self.spin_total,
                   cut_off_energy |-> self.cut_off_energy,
                   metals_method |-> self.metals_method.val]]

AllSet(self) ==
    /\ self.spin_set = "Yes"
    /\ self.cut_off_set = "Yes"
    /\ self.electronic_minimizer_set = "Yes"

\* call keeps the argument of the last call of each setter
InitParam ==
    /\ \E E \in {"No", "Yes"} : bld = Some(param_builder_new(E))
    /\ call = [op |-> "new", spin_total |-> None, cut_off_energy |-> None,
               metals_method |-> None]
    /\ ret = Unit
    /\ atoms = Idle
    /\ lm = Idle
    /\ parser = Idle
    /\ doc = Idle
    /\ model = Idle

paramFrame == <<atoms, lm, parser, doc, model>>

WithSpinTotal ==
    /\ bld.is_some
    /\ \E spin_total \in SpinTotals :
        /\ bld' = Some(with_spin_total(bld.val, spin_total))
        /\ call' = [call EXCEPT !.op = "with_spin_total",
                                !.spin_total = Some(spin_total)]
    /\ ret' = Unit
    /\ UNCHANGED paramFrame

WithCutOffEnergy ==
    /\ bld.is_some
    /\ \E cut_off_energy \in CutOffEnergies :
        /\ bld' = Some(with_cut_off_energy(bld.val, cut_off_energy))
        /\ call' = [call EXCEPT !.op = "with_cut_off_energy",
                                !.cut_off_energy = Some(cut_off_energy)]
    /\ ret' = Unit
    /\ UNCHANGED paramFrame

SetToEdft ==
    /\ bld.is_some
    /\ bld' = Some(set_to_edft(bld.val))
    /\ call' = [call EXCEPT !.op = "set_to_edft", !.metals_method = Some("EDFT")]
    /\ ret' = Unit
    /\ UNCHANGED paramFrame

SetToDm ==
    /\ bld.is_some
    /\ bld' = Some(set_to_dm(bld.val))
    /\ call' = [call EXCEPT !.op = "set_to_dm",
                            !.metals_method = Some("DensityMixing")]
    /\ ret' = Unit
    /\ UNCHANGED paramFrame

\* build takes the builder; it is there only for a builder with three Yes
ParamBuild ==
    /\ bld.is_some
    /\ AllSet(bld.val)
    /\ ret' = param_build(bld.val)
    /\ bld' = None
    /\ call' = [call EXCEPT !.op = "build"]
    /\ UNCHANGED paramFrame

NextParam ==
    \/ WithSpinTotal
    \/ WithCutOffEnergy
    \/ SetToEdft
    \/ SetToDm
    \/ ParamBuild

SpecParam == InitParam /\ [][NextParam]_vars

\* C28: a builder whose three markers are Yes has a metals_method, build
\* does not panic, and the CastepParam built has the spin total, the cut-off
\* energy and the minimizer of the last call of each setter.
Claim_C28 ==
    /\ (bld.is_some /\ AllSet(bld.val)) => bld.val.metals_method.is_some
    /\ call.op = "build" =>
           /\ ret.kind = "Ok"
           /\ Some(ret.val.spin) = call.spin_total
           /\ Some(ret.val.cut_off_energy) = call.cut_off_energy
           /\ Some(ret.val.metals_method) = call.metals_method

---------------------------------------------------------------------------
(* spin_total *)

\* most atoms of a table whose spins are added
MaxSpinAtoms == 64

\* ELEMENT_TABLE.get_by_symbol(symbol).unwrap().spin: the table is another
\* crate's, looked up here for two of its elements
spin(symbol) == IF symbol = "Fe" THEN 4 ELSE 1

SpinSymbols == {"H", "Fe"}

\* u8 + u8: past U8Max the sum aborts with overflow checks and wraps without
add_u8(total, next, overflow_checks) ==
    IF total.kind /= "Ok" THEN total
    ELSE IF total.val + next <= U8Max THEN [kind |-> "Ok", val |-> total.val + next]
    ELSE IF overflow_checks THEN Panic
    ELSE [kind |-> "Ok", val |-> (total.val + next) % (U8Max + 1)]

RECURSIVE reduce_add(_, _, _)
reduce_add(total, spins, overflow_checks) ==
    IF total.kind /= "Ok" \/ Len(spins) = 0 THEN total
    ELSE reduce_add(add_u8(total, Head(spins), overflow_checks), Tail(spins),
                    overflow_checks)

\* VisitCollection::spin_total: map, reduce, unwrap
spin_total(self, overflow_checks) ==
    IF Len(self.element_symbols) = 0 THEN Panic
    ELSE reduce_add([kind |-> "Ok", val |-> spin(self.element_symbols[1])],
                    [i \in 1..(Len(self.element_symbols) - 1) |->
                        spin(self.element_symbols[i + 1])],
                    overflow_checks)

\* tables of one element
InitSpin ==
    /\ \E symbol \in SpinSymbols, n \in 0..MaxSpinAtoms :
           atoms = Some(from_vec_atoms("Cell",
                       [i \in 1..n |-> Atom(symbol, 1, <<0, 0, 0>>, None, i)]))
    /\ bld = None
    /\ call = [op |-> "new"]
    /\ ret = Unit
    /\ lm = Idle
    /\ parser = Idle
    /\ doc = Idle
    /\ model = Idle

\* the build is with or without overflow checks
SpinTotal ==
    /\ call.op = "new"
    /\ \E overflow_checks \in BOOLEAN :
        /\ ret' = spin_total(atoms.val, overflow_checks)
        /\ call' = [op |-> "spin_total", overflow_checks |-> overflow_checks]
    /\ UNCHANGED <<bld, atoms, lm, parser, doc, model>>

SpecSpin == InitSpin /\ [][SpinTotal]_vars

RECURSIVE SumOf(_)
SumOf(s) == IF Len(s) = 0 THEN 0 ELSE Head(s) + SumOf(Tail(s))

\* C30: spin_total returns the sum of the spins of the atoms of the table,
\* for every table: the empty table gives 0, and a sum past 255 is returned
\* as it is.
Claim_C30 ==
    call.op = "spin_total" =>
        /\ ret.kind = "Ok"
        /\ ret.val = SumOf([i \in 1..atoms.val.size |->
                               spin(atoms.val.element_symbols[i])])

====
